---- MODULE Spec2Model ----
(***************************************************************************)
(* A model of the stepped agent simulation engine of Ecosys:               *)
(*   backend/models/species.py    the entity model (Grass, Cow, Tiger)     *)
(*   backend/models/ecosystem.py  the registry and the orchestrator        *)
(*   backend/engine/simulation.py the threaded stepping clock              *)
(*                                                                         *)
(* Numbers.  Energies are floats in the source; here one unit of energy is *)
(* EnergyUnit model units, so that the fractional growth of grass (1.8 a   *)
(* tick when uncontested, 0.09 at full density) is an integer.  Positions  *)
(* are integer points; every entity of the model lives on one row of the   *)
(* world (y = SeedY), where the normalised step of move_towards_target is  *)
(* exact.  A probability p with 0 < p < 1 is a choice between both         *)
(* outcomes.                                                               *)
(*                                                                         *)
(* The tick context.  The entity methods read the context they are given   *)
(* with ecosystem_state.get(key, default), as the Dict[str, Any] their     *)
(* signatures declare; the model gives the context those semantics: a      *)
(* record with the fields EcosystemStateData carries.                      *)
(***************************************************************************)
EXTENDS Integers, Sequences, FiniteSets, TLC

VARIABLES ents,    \* the heap of entity objects: id -> attributes
          ecos,    \* the heap of EcosystemState objects
          engine,  \* the SimulationEngine's own fields
          tk,      \* per thread: where it is inside _update_ecosystem
          ext,     \* per caller thread: the engine operation it is inside
          wk,      \* per worker thread: where it is inside _simulation_loop
          calls,   \* the number of calls the callers may still make
          ret      \* what the caller's last query returned to it

vars == <<ents, ecos, engine, tk, ext, wk, calls, ret>>

-----------------------------------------------------------------------------
(* Units and species parameters (the constructors' arguments)              *)

EnergyUnit == 100

None == "None"

SpeciesNames == <<"grass", "cow", "tiger">>

Max(a, b) == IF a >= b THEN a ELSE b
Min(a, b) == IF a <= b THEN a ELSE b

\* Species.__init__'s energy argument (max_energy is four times it)
EnergyArg(kind) ==
    CASE kind = "grass" -> 40 * EnergyUnit
      [] kind = "cow"   -> 400 * EnergyUnit
      [] kind = "tiger" -> 4000 * EnergyUnit

MaxEnergy(kind) == EnergyArg(kind) * 4

MaxAge(kind) ==
    CASE kind = "grass" -> 2000
      [] kind = "cow"   -> 4000
      [] kind = "tiger" -> 8000

ReproductionEnergyCost(kind) ==
    CASE kind = "grass" -> 40 * EnergyUnit
      [] kind = "cow"   -> 400 * EnergyUnit
      [] kind = "tiger" -> 4000 * EnergyUnit

MovementSpeed(kind) == IF kind = "cow" THEN 3 ELSE 4

EnergyConsumption(kind) ==
    IF kind = "cow" THEN 2 * EnergyUnit ELSE 20 * EnergyUnit

HuntingRange(kind) == IF kind = "cow" THEN 5 ELSE 6

DetectionRange(kind) == IF kind = "cow" THEN 800 ELSE 1000

FoodTypes(kind) == IF kind = "cow" THEN <<"grass">> ELSE <<"cow">>

HuntingCooldownDuration(kind) == IF kind = "cow" THEN 0 ELSE 4

\* the cooldown a successful reproduce() sets
ReproductionCooldown(kind) ==
    CASE kind = "grass" -> 10
      [] kind = "cow"   -> 200
      [] kind = "tiger" -> 800

\* can_reproduce's species gate: age > ReproductionMinAge
ReproductionMinAge(kind) == IF kind = "cow" THEN 20 ELSE 30

CompetitionRadius == 30

\* hunting_success_rate is kept as a numerator over RateDen(kind):
\* 0.2 + 0.6 * (1 - age / max_age) = (2 max_age + 6 (max_age - age)) / (10 max_age)
RateDen(kind) == 10 * MaxAge(kind)
BaseRate(kind) ==
    CASE kind = "grass" -> 0
      [] kind = "cow"   -> RateDen(kind)
      [] kind = "tiger" -> 2 * MaxAge(kind)

HistoryMax == 100

-----------------------------------------------------------------------------
(* Position                                                                *)

Pos(x, y) == [x |-> x, y |-> y]

Sq(n) == n * n

\* distance_to(other) <= r, for an integer r
WithinDistance(p, q, r) == Sq(p.x - q.x) + Sq(p.y - q.y) <= Sq(r)

DistSq(p, q) == Sq(p.x - q.x) + Sq(p.y - q.y)

\* the integer square root (exact on the squares the one-row world produces)
ISqrt(n) == CHOOSE r \in 0..n : Sq(r) <= n /\ Sq(r + 1) > n

ClampBelow(v, hi) == Max(0, v)

Clamp(v, hi) == Max(0, Min(hi, v))

-----------------------------------------------------------------------------
(* Species (base class)                                                    *)

NewEntity(kind, pos) ==
    [kind |-> kind, position |-> pos,
     energy |-> ReproductionEnergyCost(kind), age |-> 0, alive |-> TRUE,
     reproduction_cooldown |-> 0, death_reason |-> None,
     hunting_cooldown |-> 0, hunting_success_rate |-> BaseRate(kind)]

DieAlways(e, reason) == [e EXCEPT !.alive = FALSE, !.death_reason = reason]

Die(e, reason) ==
    IF e.alive THEN [e EXCEPT !.alive = FALSE, !.death_reason = reason] ELSE e

DieFromOldAge(e) == Die(e, "Old age")
DieFromStarvation(e) == Die(e, "Starvation")
DieFromPredation(e, predator) ==
    Die(e, IF predator = "cow" THEN "Predation by Cow" ELSE "Predation by Tiger")

AgeOneStepPastMaxAge(e) ==
    LET a == [e EXCEPT !.age = @ + 1]
    IN  IF a.age > MaxAge(a.kind) THEN DieFromOldAge(a) ELSE a

AgeOneStep(e) ==
    LET a == [e EXCEPT !.age = @ + 1]
    IN  IF a.age >= MaxAge(a.kind) THEN DieFromOldAge(a) ELSE a

\* Species.update
SpeciesUpdate(e) ==
    IF ~e.alive THEN e
    ELSE IF e.reproduction_cooldown > 0
         THEN [e EXCEPT !.reproduction_cooldown = @ - 1]
         ELSE e

\* Species.can_reproduce
SpeciesCanReproduceNoCooldown(e) ==
    e.alive /\ e.energy >= ReproductionEnergyCost(e.kind) * 2

SpeciesCanReproduce(e) ==
    /\ e.alive
    /\ e.energy >= ReproductionEnergyCost(e.kind) * 2
    /\ e.reproduction_cooldown <= 0

\* Cow.can_reproduce, Tiger.can_reproduce; Grass.can_reproduce is this and a
\* random draw below reproduction_chance, which the caller makes
CanReproduce(e) ==
    /\ SpeciesCanReproduce(e)
    /\ e.kind # "grass" => e.age > ReproductionMinAge(e.kind)

ChargeReproductionShortCooldown(e) ==
    [e EXCEPT !.energy = @ - ReproductionEnergyCost(e.kind),
              !.reproduction_cooldown = ReproductionCooldown(e.kind) - 1]

\* the parent after a reproduce() that returned an offspring
ChargeReproduction(e) ==
    [e EXCEPT !.energy = @ - ReproductionEnergyCost(e.kind),
              !.reproduction_cooldown = ReproductionCooldown(e.kind)]

-----------------------------------------------------------------------------
(* The tick context (EcosystemState.get_ecosystem_state)                   *)

RECURSIVE SelectIds(_, _, _)
\* the ids of list whose entity in heap E satisfies alive = want, in order
SelectIds(E, list, want) ==
    IF list = <<>> THEN <<>>
    ELSE IF E[Head(list)].alive = want
         THEN <<Head(list)>> \o SelectIds(E, Tail(list), want)
         ELSE SelectIds(E, Tail(list), want)

EmptyCtx ==
    [world_width |-> 0, world_height |-> 0, grass_list |-> <<>>,
     cow_list |-> <<>>, tiger_list |-> <<>>, time_step |-> 0,
     grass_positions_array |-> <<>>, alive_grass_objects |-> <<>>]

GetEcosystemState(E, eco) ==
    LET alive_grass == SelectIds(E, eco.registry["grass"], TRUE)
    IN  [world_width |-> eco.config.world_width,
         world_height |-> eco.config.world_height,
         grass_list |-> eco.registry["grass"],
         cow_list |-> eco.registry["cow"],
         tiger_list |-> eco.registry["tiger"],
         time_step |-> eco.time_step,
         grass_positions_array |->
             [j \in 1..Len(alive_grass) |-> E[alive_grass[j]].position],
         alive_grass_objects |-> alive_grass]

\* ecosystem_state.get(f'{food_type}_list', [])
CtxList(ctx, name) ==
    CASE name = "grass" -> ctx.grass_list
      [] name = "cow"   -> ctx.cow_list
      [] name = "tiger" -> ctx.tiger_list

-----------------------------------------------------------------------------
(* Animal                                                                  *)

\* find_nearest_food: the index in the food list of the nearest alive food
\* within detection_range, the earliest one among equals; 0 when there is none
FindNearestFood(E, id, ctx) ==
    LET me == E[id]
        list == CtxList(ctx, FoodTypes(me.kind)[1])
        seen == {j \in 1..Len(list) :
                    /\ E[list[j]].alive
                    /\ WithinDistance(me.position, E[list[j]].position,
                                      DetectionRange(me.kind))}
    IN  IF seen = {} THEN 0
        ELSE CHOOSE j \in seen : \A k \in seen :
                \/ DistSq(me.position, E[list[j]].position)
                     < DistSq(me.position, E[list[k]].position)
                \/ /\ DistSq(me.position, E[list[j]].position)
                        = DistSq(me.position, E[list[k]].position)
                   /\ j <= k

\* move_towards_target
MoveTowardsTarget(e, target, w, h) ==
    IF ~e.alive THEN e
    ELSE LET dx == target.x - e.position.x
             dy == target.y - e.position.y
             distance == ISqrt(Sq(dx) + Sq(dy))
         IN  IF distance > 0
             THEN [e EXCEPT !.position =
                     Pos(Clamp(e.position.x
                               + (dx * MovementSpeed(e.kind)) \div distance, w),
                         Clamp(e.position.y
                               + (dy * MovementSpeed(e.kind)) \div distance, h))]
             ELSE e

\* the directions (cos, sin) the model draws for move_randomly's angle
RandomDirections == {<<1, 0>>, <<-1, 0>>}

\* move_randomly
MoveRandomly(e, dir, w, h, speed) ==
    IF ~e.alive THEN e
    ELSE [e EXCEPT !.position =
             Pos(Clamp(e.position.x + dir[1] * speed, w),
                 Clamp(e.position.y + dir[2] * speed, h))]

\* intelligent_move; dir is the direction drawn if the move is random
IntelligentMove(E, id, ctx, dir) ==
    LET e == E[id]
        j == FindNearestFood(E, id, ctx)
    IN  IF ~e.alive THEN e
        ELSE IF e.hunting_cooldown > 0
             THEN [e EXCEPT !.hunting_cooldown = @ - 1]
             ELSE IF j # 0
                  THEN MoveTowardsTarget(
                           e, E[CtxList(ctx, FoodTypes(e.kind)[1])[j]].position,
                           ctx.world_width, ctx.world_height)
                  ELSE MoveRandomly(e, dir, ctx.world_width, ctx.world_height,
                                    MovementSpeed(e.kind))

StartHuntingCooldown(e) ==
    [e EXCEPT !.hunting_cooldown = HuntingCooldownDuration(e.kind)]

InRangeDeadOrAlive(E, id, list) ==
    {j \in 1..Len(list) :
        WithinDistance(E[id].position, E[list[j]].position,
                       HuntingRange(E[id].kind))}

\* the alive individuals of list within hunting range of id, as list indexes
InRange(E, id, list) ==
    {j \in 1..Len(list) :
        /\ E[list[j]].alive
        /\ WithinDistance(E[id].position, E[list[j]].position,
                          HuntingRange(E[id].kind))}

MinOf(S) == CHOOSE j \in S : \A k \in S : j <= k

ConsumeUnclamped(E, id, prey) ==
    [E EXCEPT ![id].energy = @ + E[prey].energy,
              ![prey] = DieFromPredation(E[prey], E[id].kind)]

\* the heap after consumer id has consumed prey
Consume(E, id, prey) ==
    [E EXCEPT ![id].energy = Min(MaxEnergy(E[id].kind), @ + E[prey].energy),
              ![prey] = DieFromPredation(E[prey], E[id].kind)]

EatGrassOutOfReach(E, id, grass_list) == E

\* Cow._eat_grass: the first alive grass in range is eaten
EatGrass(E, id, grass_list) ==
    LET S == InRange(E, id, grass_list)
    IN  IF S = {} THEN E ELSE Consume(E, id, grass_list[MinOf(S)])

\* Tiger._hunt_cows draws once for each alive cow in range, in list order,
\* until a draw succeeds.  The outcomes: the list index of the cow caught, or
\* 0 when every draw failed (or no cow was in range)
HuntOutcomes(E, id, cow_list) ==
    LET S == InRange(E, id, cow_list)
        rate == E[id].hunting_success_rate
        den == RateDen(E[id].kind)
    IN  {j \in S : rate > 0 /\ (j = MinOf(S) \/ rate < den)}
        \cup (IF S = {} \/ rate < den THEN {0} ELSE {})

HuntCowsWithoutCooldown(E, id, cow_list, j) ==
    IF j = 0 THEN E ELSE Consume(E, id, cow_list[j])

HuntCows(E, id, cow_list, j) ==
    IF j = 0 THEN E
    ELSE [Consume(E, id, cow_list[j]) EXCEPT
             ![id].hunting_cooldown = HuntingCooldownDuration(E[id].kind)]

\* Tiger.update's recomputation of hunting_success_rate
TigerHuntingSuccessRate(e) ==
    IF e.energy * 3 <= ReproductionEnergyCost(e.kind)
    THEN 2 * MaxAge(e.kind) + 6 * (MaxAge(e.kind) - e.age)
    ELSE 2 * MaxAge(e.kind)

-----------------------------------------------------------------------------
(* Grass                                                                   *)

\* calculate_nearby_grass_density_optimized, up to the normalisation: the
\* number of precomputed positions, self excluded, within competition_radius
NearbyGrassCount(E, id, ctx) ==
    LET objs == ctx.alive_grass_objects
        arr == ctx.grass_positions_array
    IN  Cardinality({j \in 1..Len(arr) :
                        /\ objs[j] # id
                        /\ WithinDistance(E[id].position, arr[j],
                                          CompetitionRadius)})

\* base_growth_rate 0.9, and min_growth_rate = base_growth_rate * 0.01 rounded
\* to the unit, in model units of energy
BaseGrowthRate == (9 * EnergyUnit) \div 10
MinGrowthRate == (9 * EnergyUnit + 500) \div 1000

\* base_growth_rate * competition_factor, in model units of energy, as a
\* function of the nearby count n: density = min(1, n / (pi 30^2 / 400)),
\* competition_factor = 1 - density^0.3 * 0.9; the values for 0 < n < 8 are
\* rounded to the unit
CompetitionRate(n) ==
    CASE n = 0 -> BaseGrowthRate
      [] n = 1 -> (45 * EnergyUnit) \div 100
      [] n = 2 -> (35 * EnergyUnit) \div 100
      [] n = 3 -> (27 * EnergyUnit) \div 100
      [] n = 4 -> (22 * EnergyUnit) \div 100
      [] n = 5 -> (17 * EnergyUnit) \div 100
      [] n = 6 -> (13 * EnergyUnit) \div 100
      [] OTHER -> (9 * EnergyUnit) \div 100

GrowthRateWithoutBonus(n) == Max(MinGrowthRate, CompetitionRate(n))

\* get_competition_adjusted_growth_rate: competition_factor = 2.0 at density
\* 0, and the result is max(min_growth_rate, adjusted_growth_rate)
CompetitionAdjustedGrowthRate(n) ==
    Max(MinGrowthRate,
        IF n = 0 THEN 2 * BaseGrowthRate ELSE CompetitionRate(n))

GrassGrow(E, id, ctx) ==
    [E[id] EXCEPT !.energy =
        Min(MaxEnergy("grass"),
            @ + CompetitionAdjustedGrowthRate(NearbyGrassCount(E, id, ctx)))]

-----------------------------------------------------------------------------
(* reproduce                                                               *)

\* the offsets the model draws for the offspring's uniform(-r, r) offset
OffspringOffsets(kind) ==
    CASE kind = "grass" -> {<<-200, 0>>, <<2, 0>>}
      [] kind = "cow"   -> {<<1, 0>>}
      [] kind = "tiger" -> {<<-1, 0>>}

OffspringPosition(e, off, w, h) ==
    Pos(Clamp(e.position.x + off[1], w), Clamp(e.position.y + off[2], h))

\* Grass.reproduce returns None for a position on the border of the world
StrictlyInside(p, w, h) == p.x > 0 /\ p.x < w /\ p.y > 0 /\ p.y < h

\* whether reproduce(ctx) of e returns an offspring, given the outcome of the
\* reproduction_chance draws (grass) and the offset drawn
ReproduceReturns(e, chance, off, ctx) ==
    /\ CanReproduce(e)
    /\ e.kind = "grass" =>
          /\ chance
          /\ StrictlyInside(
                OffspringPosition(e, off, ctx.world_width, ctx.world_height),
                ctx.world_width, ctx.world_height)

\* the heap after a reproduce() of id that returned an offspring: the parent
\* charged, the offspring a new object
Reproduce(E, id, off, ctx) ==
    Append([E EXCEPT ![id] = ChargeReproduction(E[id])],
           NewEntity(E[id].kind,
                     OffspringPosition(E[id], off, ctx.world_width,
                                       ctx.world_height)))

-----------------------------------------------------------------------------
(* Threads                                                                 *)

MainThread == "main"
ExtThreads == {"t1", "t2"}
Workers == {"w1", "w2"}
Threads == {MainThread} \cup ExtThreads \cup Workers

\* a thread that is not inside _update_ecosystem
\* what a query returned to its caller, and a caller holding no result
Returned(op, value) == [op |-> op, value |-> value]

NoResult == Returned("none", <<>>)

TkIdle ==
    [pc |-> "idle", eco |-> 0, ctx |-> EmptyCtx, sp |-> 0, snap |-> <<>>,
     i |-> 0, new_individuals |-> <<>>, time_step |-> 0]

\* the individual thread t is updating or asking to reproduce
CurId(t) == tk[t].snap[tk[t].i]

Registry(k) == ecos[k].registry

\* the species after sp, in registration order, that have individuals
LaterSpecies(R, sp) == {s \in (sp + 1)..3 : Len(R[SpeciesNames[s]]) > 0}

-----------------------------------------------------------------------------
(* SimulationEngine._update_ecosystem, statement by statement              *)

\* the call of _update_ecosystem
BeginTick(t) ==
    tk' = [tk EXCEPT ![t] = [TkIdle EXCEPT !.pc = "get_ecosystem_state"]]

\* ecosystem_state = self.ecosystem.get_ecosystem_state()
ContextStep(t) ==
    /\ tk[t].pc = "get_ecosystem_state"
    /\ tk' = [tk EXCEPT ![t].ctx = GetEcosystemState(ents, ecos[engine.ecosystem]),
                        ![t].pc = "update_species"]
    /\ UNCHANGED <<ents, ecos, engine, ext, wk, calls, ret>>

\* update_species: on to the next individual of the stable copy, then to the
\* next species' list[:], then out of the phase
AdvanceUpdate(rec, R) ==
    IF rec.i < Len(rec.snap)
    THEN [rec EXCEPT !.i = @ + 1, !.pc = "Species_update"]
    ELSE IF LaterSpecies(R, rec.sp) = {}
         THEN [rec EXCEPT !.pc = "handle_reproduction", !.sp = 0,
                          !.snap = <<>>, !.i = 0]
         ELSE [rec EXCEPT !.sp = MinOf(LaterSpecies(R, rec.sp)),
                          !.snap = R[SpeciesNames[MinOf(LaterSpecies(R, rec.sp))]],
                          !.i = 1, !.pc = "Species_update"]

\* self.ecosystem.update_species(ecosystem_state)
EnterUpdateStep(t) ==
    /\ tk[t].pc = "update_species"
    /\ tk' = [tk EXCEPT ![t] =
                AdvanceUpdate([tk[t] EXCEPT !.eco = engine.ecosystem],
                              Registry(engine.ecosystem))]
    /\ UNCHANGED <<ents, ecos, engine, ext, wk, calls, ret>>

\* super().update(ecosystem_state), Tiger.update's rate, and `if not self.alive`
SpeciesUpdateStep(t) ==
    /\ tk[t].pc = "Species_update"
    /\ LET id == CurId(t)
           e1 == SpeciesUpdate(ents[id])
           e2 == IF e1.kind = "tiger"
                 THEN [e1 EXCEPT !.hunting_success_rate = TigerHuntingSuccessRate(e1)]
                 ELSE e1
       IN  /\ ents' = [ents EXCEPT ![id] = e2]
           /\ tk' = [tk EXCEPT ![t] =
                        IF ~e2.alive THEN AdvanceUpdate(tk[t], Registry(tk[t].eco))
                        ELSE [tk[t] EXCEPT !.pc = IF e2.kind = "grass" THEN "grow"
                                                  ELSE "intelligent_move"]]
    /\ UNCHANGED <<ecos, engine, ext, wk, calls, ret>>

\* Grass.update: self.energy = min(self.max_energy, self.energy + rate)
GrowStep(t) ==
    /\ tk[t].pc = "grow"
    /\ ents' = [ents EXCEPT ![CurId(t)] = GrassGrow(ents, CurId(t), tk[t].ctx)]
    /\ tk' = [tk EXCEPT ![t].pc = "age_one_step"]
    /\ UNCHANGED <<ecos, engine, ext, wk, calls, ret>>

\* self.intelligent_move(ecosystem_state)
MoveStep(t) ==
    /\ tk[t].pc = "intelligent_move"
    /\ \E dir \in RandomDirections :
          ents' = [ents EXCEPT ![CurId(t)] =
                      IntelligentMove(ents, CurId(t), tk[t].ctx, dir)]
    /\ tk' = [tk EXCEPT ![t].pc = "consume_energy"]
    /\ UNCHANGED <<ecos, engine, ext, wk, calls, ret>>

\* self.energy -= self.energy_consumption
ConsumeEnergy(e) == [e EXCEPT !.energy = @ - EnergyConsumption(e.kind)]

ConsumeStep(t) ==
    /\ tk[t].pc = "consume_energy"
    /\ ents' = [ents EXCEPT ![CurId(t)] = ConsumeEnergy(@)]
    /\ tk' = [tk EXCEPT ![t].pc = "feed"]
    /\ UNCHANGED <<ecos, engine, ext, wk, calls, ret>>

\* self._eat_grass(...) / self._hunt_cows(...)
FeedStep(t) ==
    /\ tk[t].pc = "feed"
    /\ IF ents[CurId(t)].kind = "cow"
       THEN ents' = EatGrass(ents, CurId(t), tk[t].ctx.grass_list)
       ELSE \E j \in HuntOutcomes(ents, CurId(t), tk[t].ctx.cow_list) :
               ents' = HuntCows(ents, CurId(t), tk[t].ctx.cow_list, j)
    /\ tk' = [tk EXCEPT ![t].pc = "age_one_step"]
    /\ UNCHANGED <<ecos, engine, ext, wk, calls, ret>>

\* self.age_one_step()
AgeStep(t) ==
    /\ tk[t].pc = "age_one_step"
    /\ ents' = [ents EXCEPT ![CurId(t)] = AgeOneStep(@)]
    /\ tk' = [tk EXCEPT ![t].pc = "death_check"]
    /\ UNCHANGED <<ecos, engine, ext, wk, calls, ret>>

\* the update's last statement: Grass `if self.age >= self.max_age: self.die()`,
\* Cow and Tiger `if self.energy <= 0: self.die_from_starvation()`
DeathCheckBelowZero(e) ==
    IF e.kind = "grass"
    THEN IF e.age >= MaxAge(e.kind) THEN Die(e, "Unknown") ELSE e
    ELSE IF e.energy < 0 THEN DieFromStarvation(e) ELSE e

DeathCheckLastCauseWins(e) ==
    IF e.kind = "grass"
    THEN IF e.age >= MaxAge(e.kind) THEN Die(e, "Unknown") ELSE e
    ELSE IF e.energy <= 0 THEN DieAlways(e, "Starvation") ELSE e

DeathCheck(e) ==
    IF e.kind = "grass"
    THEN IF e.age >= MaxAge(e.kind) THEN Die(e, "Unknown") ELSE e
    ELSE IF e.energy <= 0 THEN DieFromStarvation(e) ELSE e

DeathCheckStep(t) ==
    /\ tk[t].pc = "death_check"
    /\ ents' = [ents EXCEPT ![CurId(t)] = DeathCheck(@)]
    /\ tk' = [tk EXCEPT ![t] = AdvanceUpdate(tk[t], Registry(tk[t].eco))]
    /\ UNCHANGED <<ecos, engine, ext, wk, calls, ret>>

\* handle_reproduction: on to the next species that has individuals, with
\* its list[:] and an empty new_individuals, or out of the phase
AdvanceReproduction(rec, R) ==
    IF LaterSpecies(R, rec.sp) = {}
    THEN [rec EXCEPT !.pc = "cleanup_dead", !.sp = 1, !.snap = <<>>, !.i = 0,
                     !.new_individuals = <<>>]
    ELSE [rec EXCEPT !.sp = MinOf(LaterSpecies(R, rec.sp)),
                     !.snap = R[SpeciesNames[MinOf(LaterSpecies(R, rec.sp))]],
                     !.i = 1, !.new_individuals = <<>>, !.pc = "reproduce"]

\* self.ecosystem.handle_reproduction(): its fresh context
EnterReproductionStep(t) ==
    /\ tk[t].pc = "handle_reproduction"
    /\ tk' = [tk EXCEPT ![t] =
                AdvanceReproduction(
                    [tk[t] EXCEPT !.eco = engine.ecosystem,
                                  !.ctx = GetEcosystemState(ents, ecos[engine.ecosystem])],
                    Registry(engine.ecosystem))]
    /\ UNCHANGED <<ents, ecos, engine, ext, wk, calls, ret>>

ReproduceStepOverLiveList(t) ==
    /\ tk[t].pc = "reproduce"
    /\ \E chance \in BOOLEAN, off \in OffspringOffsets(ents[CurId(t)].kind) :
          IF ReproduceReturns(ents[CurId(t)], chance, off, tk[t].ctx)
          THEN /\ ents' = Reproduce(ents, CurId(t), off, tk[t].ctx)
               /\ tk' = [tk EXCEPT
                           ![t].new_individuals = Append(@, Len(ents) + 1),
                           ![t].snap = Append(@, Len(ents) + 1),
                           ![t].i = @ + 1]
          ELSE /\ ents' = ents
               /\ tk' = [tk EXCEPT
                           ![t].i = @ + 1,
                           ![t].pc = IF tk[t].i < Len(tk[t].snap)
                                     THEN "reproduce" ELSE "extend"]
    /\ UNCHANGED <<ecos, engine, ext, wk, calls, ret>>

ReproduceStepChargesAlways(t) ==
    /\ tk[t].pc = "reproduce"
    /\ \E chance \in BOOLEAN, off \in OffspringOffsets(ents[CurId(t)].kind) :
          IF ReproduceReturns(ents[CurId(t)], chance, off, tk[t].ctx)
          THEN /\ ents' = Reproduce(ents, CurId(t), off, tk[t].ctx)
               /\ tk' = [tk EXCEPT
                           ![t].new_individuals = Append(@, Len(ents) + 1),
                           ![t].i = @ + 1,
                           ![t].pc = IF tk[t].i < Len(tk[t].snap)
                                     THEN "reproduce" ELSE "extend"]
          ELSE /\ ents' = [ents EXCEPT ![CurId(t)] =
                              IF SpeciesCanReproduce(@) THEN ChargeReproduction(@) ELSE @]
               /\ tk' = [tk EXCEPT
                           ![t].i = @ + 1,
                           ![t].pc = IF tk[t].i < Len(tk[t].snap)
                                     THEN "reproduce" ELSE "extend"]
    /\ UNCHANGED <<ecos, engine, ext, wk, calls, ret>>

\* if individual.can_reproduce(): offspring = individual.reproduce(ctx)
ReproduceStep(t) ==
    /\ tk[t].pc = "reproduce"
    /\ \E chance \in BOOLEAN, off \in OffspringOffsets(ents[CurId(t)].kind) :
          IF ReproduceReturns(ents[CurId(t)], chance, off, tk[t].ctx)
          THEN /\ ents' = Reproduce(ents, CurId(t), off, tk[t].ctx)
               /\ tk' = [tk EXCEPT
                           ![t].new_individuals = Append(@, Len(ents) + 1),
                           ![t].i = @ + 1,
                           ![t].pc = IF tk[t].i < Len(tk[t].snap)
                                     THEN "reproduce" ELSE "extend"]
          ELSE /\ ents' = ents
               /\ tk' = [tk EXCEPT
                           ![t].i = @ + 1,
                           ![t].pc = IF tk[t].i < Len(tk[t].snap)
                                     THEN "reproduce" ELSE "extend"]
    /\ UNCHANGED <<ecos, engine, ext, wk, calls, ret>>

ExtendIndividualsOfLastSpecies(eco, name, new) ==
    [eco EXCEPT !.registry["tiger"] = @ \o new, !.births[name] = @ + Len(new)]

\* extend_individuals(species_name, new_individuals); births.increment(...)
ExtendIndividuals(eco, name, new) ==
    [eco EXCEPT !.registry[name] = @ \o new, !.births[name] = @ + Len(new)]

ExtendStep(t) ==
    /\ tk[t].pc = "extend"
    /\ ecos' = [ecos EXCEPT ![tk[t].eco] =
                   ExtendIndividuals(@, SpeciesNames[tk[t].sp],
                                     tk[t].new_individuals)]
    /\ tk' = [tk EXCEPT ![t] = AdvanceReproduction(tk[t], Registry(tk[t].eco))]
    /\ UNCHANGED <<ents, engine, ext, wk, calls, ret>>

CleanupSpeciesUnfiltered(E, eco, name) ==
    [eco EXCEPT
        !.deaths[name] = @ + Len(SelectIds(E, eco.registry[name], FALSE))]

CleanupSpeciesUntallied(E, eco, name) ==
    [eco EXCEPT !.registry[name] = SelectIds(E, eco.registry[name], TRUE)]

\* cleanup_dead, one species: count the dead, tally them, filter_alive
CleanupSpecies(E, eco, name) ==
    [eco EXCEPT
        !.deaths[name] = @ + Len(SelectIds(E, eco.registry[name], FALSE)),
        !.registry[name] = SelectIds(E, eco.registry[name], TRUE)]

CleanupStep(t) ==
    /\ tk[t].pc = "cleanup_dead"
    /\ LET k == IF tk[t].sp = 1 THEN engine.ecosystem ELSE tk[t].eco
       IN  /\ ecos' = [ecos EXCEPT ![k] =
                          CleanupSpecies(ents, @, SpeciesNames[tk[t].sp])]
           /\ tk' = [tk EXCEPT
                       ![t].eco = k,
                       ![t].sp = IF tk[t].sp < 3 THEN @ + 1 ELSE 0,
                       ![t].ctx = EmptyCtx,
                       ![t].pc = IF tk[t].sp < 3 THEN "cleanup_dead"
                                 ELSE "update_statistics"]
    /\ UNCHANGED <<ents, engine, ext, wk, calls, ret>>

\* get_species_counts
SpeciesCounts(eco) ==
    [name \in {"grass", "cow", "tiger"} |-> Len(eco.registry[name])]

FirstN(s, n) == IF Len(s) > n THEN SubSeq(s, 1, n) ELSE s

LastN(s, n) == IF Len(s) > n THEN SubSeq(s, Len(s) - n + 1, Len(s)) ELSE s

\* update_statistics
UpdateStatistics(eco) ==
    [eco EXCEPT !.population_history =
        LastN(Append(@, SpeciesCounts(eco)), HistoryMax)]

StatisticsStep(t) ==
    /\ tk[t].pc = "update_statistics"
    /\ ecos' = [ecos EXCEPT ![engine.ecosystem] = UpdateStatistics(@)]
    /\ tk' = [tk EXCEPT ![t].pc = "increment", ![t].eco = 0]
    /\ UNCHANGED <<ents, engine, ext, wk, calls, ret>>

\* _update_ecosystem returns: to the worker's loop, where no callback is set
\* (update_callback and extinction_callback are None) and the sleep is next;
\* to step(), which returns to its caller; or to the caller
ReturnFromTick(t) ==
    /\ tk' = [tk EXCEPT ![t] = TkIdle]
    /\ wk' = IF t \in Workers THEN [wk EXCEPT ![t] = "sleep"] ELSE wk
    /\ ext' = IF t \in ExtThreads THEN [ext EXCEPT ![t].pc = "idle"] ELSE ext

\* self.ecosystem.time_step += 1: the load of the attribute
IncrementStep(t) ==
    /\ tk[t].pc = "increment"
    /\ tk' = [tk EXCEPT ![t].eco = engine.ecosystem,
                        ![t].time_step = ecos[engine.ecosystem].time_step,
                        ![t].pc = "store"]
    /\ UNCHANGED <<ents, ecos, engine, ext, wk, calls, ret>>

StoreStepByTwo(t) ==
    /\ tk[t].pc = "store"
    /\ ecos' = [ecos EXCEPT ![tk[t].eco].time_step = tk[t].time_step + 2]
    /\ ReturnFromTick(t)
    /\ UNCHANGED <<ents, engine, calls, ret>>

\* self.ecosystem.time_step += 1: the store of the sum
StoreStep(t) ==
    /\ tk[t].pc = "store"
    /\ ecos' = [ecos EXCEPT ![tk[t].eco].time_step = tk[t].time_step + 1]
    /\ ReturnFromTick(t)
    /\ UNCHANGED <<ents, engine, calls, ret>>

TickStep(t) ==
    \/ ContextStep(t)
    \/ EnterUpdateStep(t)
    \/ SpeciesUpdateStep(t)
    \/ GrowStep(t)
    \/ MoveStep(t)
    \/ ConsumeStep(t)
    \/ FeedStep(t)
    \/ AgeStep(t)
    \/ DeathCheckStep(t)
    \/ EnterReproductionStep(t)
    \/ ReproduceStep(t)
    \/ ExtendStep(t)
    \/ CleanupStep(t)
    \/ StatisticsStep(t)
    \/ IncrementStep(t)
    \/ StoreStep(t)

\* check_extinction: the names, in registration order, of the species whose
\* get_species_count is 0
RECURSIVE ExtinctFrom(_, _)
ExtinctFrom(eco, n) ==
    IF n > Len(SpeciesNames) THEN <<>>
    ELSE (IF Len(eco.registry[SpeciesNames[n]]) = 0
          THEN <<SpeciesNames[n]>> ELSE <<>>) \o ExtinctFrom(eco, n + 1)

\* the species that had no individual when the registry was built
ExtinctAtConstruction(eco) ==
    SelectSeq(SpeciesNames, LAMBDA name : eco.initial_count[name] = 0)

CheckExtinction(eco) == ExtinctFrom(eco, 1)

-----------------------------------------------------------------------------
(* EcosystemConfig, SpeciesRegistry, EcosystemState                        *)

Config(w, h, g, c, t) ==
    [world_width |-> w, world_height |-> h,
     initial_grass |-> g, initial_cows |-> c, initial_tigers |-> t]

\* the world of the model, and the points random.randint draws for a seed
WorldWidth == 12
WorldHeight == 2
SeedXs == {0, WorldWidth}
\* and the point they draw in the runs of the threaded clock
ClockSeedXs == {0}
SeedY == 1

ZeroStatistics == [name \in {"grass", "cow", "tiger"} |-> 0]

\* SpeciesRegistry.__init__: the initial counts are stored at registration
RegisteredCounts(cfg) ==
    [name \in {"grass", "cow", "tiger"} |->
        CASE name = "grass" -> cfg.initial_grass
          [] name = "cow"   -> cfg.initial_cows
          [] name = "tiger" -> cfg.initial_tigers]

\* the kind of the n-th individual _initialize_populations creates
SeedKind(counts, n) ==
    IF n <= counts["grass"] THEN "grass"
    ELSE IF n <= counts["grass"] + counts["cow"] THEN "cow" ELSE "tiger"

SeedTotal(counts) == counts["grass"] + counts["cow"] + counts["tiger"]

\* _initialize_populations on a registry whose lists are empty: xs[n] is the
\* x drawn for the n-th individual; the new objects follow heap E
SeedEntities(counts, xs) ==
    [n \in 1..SeedTotal(counts) |-> NewEntity(SeedKind(counts, n), Pos(xs[n], SeedY))]

SeedRegistry(base, counts) ==
    [name \in {"grass", "cow", "tiger"} |->
        CASE name = "grass" -> [j \in 1..counts["grass"] |-> base + j]
          [] name = "cow"   -> [j \in 1..counts["cow"] |-> base + counts["grass"] + j]
          [] name = "tiger" ->
                [j \in 1..counts["tiger"] |->
                    base + counts["grass"] + counts["cow"] + j]]

\* EcosystemState.__init__(config), its objects following `base` in the heap
NewEcosystem(cfg, base) ==
    [config |-> cfg,
     initial_count |-> RegisteredCounts(cfg),
     registry |-> SeedRegistry(base, RegisteredCounts(cfg)),
     time_step |-> 0,
     births |-> ZeroStatistics,
     deaths |-> ZeroStatistics,
     population_history |-> <<>>]

\* the counts _initialize_populations seeds on reset: get_initial_count, the
\* counts stored when the registry was built
ResetSeedCounts(eco, cfg) == eco.initial_count

\* EcosystemState.reset(config): opt is {} for no config, {cfg} for one
ResetEcosystem(eco, opt, base) ==
    LET cfg == IF opt = {} THEN eco.config ELSE CHOOSE c \in opt : TRUE
    IN  [eco EXCEPT
            !.config = cfg,
            !.time_step = 0,
            !.registry = SeedRegistry(base, ResetSeedCounts(eco, cfg)),
            !.births = ZeroStatistics,
            !.deaths = ZeroStatistics,
            !.population_history = <<>>]

-----------------------------------------------------------------------------
(* The engine's fields, and the threads at rest                            *)

NewEngine(cfg) ==
    [config |-> cfg, ecosystem |-> 1, is_running |-> FALSE,
     is_paused |-> FALSE, simulation_speed |-> 10,
     simulation_thread |-> None, stop_event |-> FALSE]

\* the dictionary get_data builds, before its entries are computed
EmptyData ==
    [ecosystem_state |-> [name \in {"grass", "cow", "tiger"} |-> <<>>],
     species_counts |-> ZeroStatistics,
     time_step |-> 0, births |-> ZeroStatistics, deaths |-> ZeroStatistics,
     population_history |-> <<>>,
     is_running |-> FALSE, is_paused |-> FALSE, simulation_speed |-> 10]

\* a caller thread inside no operation: op is the operation it called last,
\* new_config and speed the argument it passed to reset or to set_speed, data
\* what get_data returned to it
ExtIdle ==
    [pc |-> "idle", op |-> "none", was_running |-> FALSE, new_config |-> {},
     speed |-> 0, joined |-> None, data |-> EmptyData]

-----------------------------------------------------------------------------
(* Spec: the orchestrator driven by one caller, tick after tick            *)

MaxTicks == 2
MaxResets == 1

\* States of an individual that runs of the program reach, as the
\* attributes that differ from a new individual's:
\*   grass  grown to max_energy; one update short of max_age
\*   cow    energy 1.8 at age 220 (fed once on a grass of 41.8); max_energy
\*          at age 50; energy 2 one update short of max_age
\*   tiger  energy 20 at age 199 (never fed); energy 10 at age 250; max_energy
\*          at age 100
Profiles(kind) ==
    LET new == NewEntity(kind, Pos(0, SeedY))
    IN  CASE kind = "grass" ->
               {new,
                [new EXCEPT !.energy = MaxEnergy(kind), !.age = 100],
                [new EXCEPT !.energy = MaxEnergy(kind), !.age = MaxAge(kind) - 1]}
          [] kind = "cow" ->
               {new,
                [new EXCEPT !.energy = (18 * EnergyUnit) \div 10, !.age = 220],
                [new EXCEPT !.energy = MaxEnergy(kind), !.age = 50],
                [new EXCEPT !.energy = 2 * EnergyUnit, !.age = MaxAge(kind) - 1]}
          [] kind = "tiger" ->
               {new,
                [new EXCEPT !.energy = 20 * EnergyUnit, !.age = 199],
                [new EXCEPT !.energy = 10 * EnergyUnit, !.age = 250],
                [new EXCEPT !.energy = MaxEnergy(kind), !.age = 100]}

Placed(kind) ==
    {[p EXCEPT !.position = Pos(x, SeedY)] : p \in Profiles(kind), x \in SeedXs}

\* the heaps of a registry seeded with `counts` individuals
SeededHeaps(counts) ==
    {es \in [1..SeedTotal(counts) ->
                Placed("grass") \cup Placed("cow") \cup Placed("tiger")] :
        \A n \in 1..SeedTotal(counts) : es[n].kind = SeedKind(counts, n)}

\* the heaps of a freshly constructed registry
FreshHeaps(counts, X) ==
    {SeedEntities(counts, xs) : xs \in [1..SeedTotal(counts) -> X]}

InitConfigs ==
    {Config(WorldWidth, WorldHeight, 1, 1, 1),
     Config(WorldWidth, WorldHeight, 1, 1, 0)}

ResetConfigs ==
    {Config(WorldWidth, WorldHeight, 2, 1, 0)}

Init ==
    \E cfg \in InitConfigs : \E es \in SeededHeaps(RegisteredCounts(cfg)) :
        /\ ents = es
        /\ ecos = <<NewEcosystem(cfg, 0)>>
        /\ engine = NewEngine(cfg)
        /\ tk = [t \in Threads |-> TkIdle]
        /\ ext = [t \in ExtThreads |-> ExtIdle]
        /\ wk = [w \in Workers |-> "unborn"]
        /\ calls = MaxResets
        /\ ret = NoResult

\* the caller runs one tick of the orchestrator; it keeps the result of a
\* query only until its next call
MainTick ==
    /\ tk[MainThread].pc = "idle"
    /\ ecos[1].time_step < MaxTicks
    /\ BeginTick(MainThread)
    /\ ret' = NoResult
    /\ UNCHANGED <<ents, ecos, engine, ext, wk, calls>>

\* the caller calls EcosystemState.reset(config); the individuals of the
\* cleared lists are referenced by nothing any more and leave the heap
MainReset ==
    /\ tk[MainThread].pc = "idle"
    /\ \E opt \in {{}} \cup {{c} : c \in ResetConfigs} :
       \E es \in FreshHeaps(ResetSeedCounts(ecos[1], opt), SeedXs) :
          /\ ecos' = [ecos EXCEPT ![1] = ResetEcosystem(@, opt, 0)]
          /\ ents' = es
    /\ calls > 0
    /\ calls' = calls - 1
    /\ ret' = NoResult
    /\ UNCHANGED <<engine, tk, ext, wk>>

\* the caller calls EcosystemState.check_extinction()
MainCheckExtinction ==
    /\ tk[MainThread].pc = "idle"
    /\ ret' = Returned("check_extinction", CheckExtinction(ecos[1]))
    /\ UNCHANGED <<ents, ecos, engine, tk, ext, wk, calls>>

Next ==
    \/ MainTick
    \/ MainCheckExtinction
    \/ TickStep(MainThread)
    \/ MainReset

Spec == Init /\ [][Next]_vars

-----------------------------------------------------------------------------
(* SimulationEngine: the operations, statement by statement                *)

\* Thread.is_alive()
IsAlive(w) == wk[w] \notin {"unborn", "dead"}

\* Thread.join() returns
JoinReturnsAtOnce(w) == TRUE

JoinReturns(w) == ~IsAlive(w)

\* the Thread objects a start() can create: those that never ran or have
\* finished, and that no caller is joining
FreeWorkers ==
    {w \in Workers : ~IsAlive(w) /\ \A t \in ExtThreads : ext[t].joined # w}

NewThread == CHOOSE w \in FreeWorkers : TRUE

\* a call of an operation by a thread at rest
Called(op) == [ExtIdle EXCEPT !.op = op]

\* start(): `if self.is_running: return`
StartEnter(rec) ==
    [rec EXCEPT !.pc = IF engine.is_running THEN "idle" ELSE "start_is_running"]

StartCall(t) ==
    /\ ext[t].pc = "idle"
    /\ ext' = [ext EXCEPT ![t] = StartEnter(Called("start"))]
    /\ calls > 0
    /\ calls' = calls - 1
    /\ UNCHANGED <<ents, ecos, engine, tk, wk, ret>>

\* self.is_running = True
StartSetRunning(t) ==
    /\ ext[t].pc = "start_is_running"
    /\ engine' = [engine EXCEPT !.is_running = TRUE]
    /\ ext' = [ext EXCEPT ![t].pc = "start_is_paused"]
    /\ UNCHANGED <<ents, ecos, tk, wk, calls, ret>>

\* self.is_paused = False
StartSetPaused(t) ==
    /\ ext[t].pc = "start_is_paused"
    /\ engine' = [engine EXCEPT !.is_paused = FALSE]
    /\ ext' = [ext EXCEPT ![t].pc = "start_stop_event"]
    /\ UNCHANGED <<ents, ecos, tk, wk, calls, ret>>

\* self.stop_event.clear()
StartClearEvent(t) ==
    /\ ext[t].pc = "start_stop_event"
    /\ engine' = [engine EXCEPT !.stop_event = FALSE]
    /\ ext' = [ext EXCEPT ![t].pc = "start_thread"]
    /\ UNCHANGED <<ents, ecos, tk, wk, calls, ret>>

\* self.simulation_thread = threading.Thread(...); ...start(), and start()
\* returns
StartThread(t) ==
    /\ ext[t].pc = "start_thread"
    /\ FreeWorkers # {}
    /\ engine' = [engine EXCEPT !.simulation_thread = NewThread]
    /\ wk' = [wk EXCEPT ![NewThread] = "while"]
    /\ ext' = [ext EXCEPT ![t].pc = "idle"]
    /\ UNCHANGED <<ents, ecos, tk, calls, ret>>

\* where stop() returns to: into reset(), or to the caller
AfterStop(rec) == IF rec.op = "reset" THEN "reset_config" ELSE "idle"

\* stop(): `if not self.is_running: return`
StopEnter(rec) ==
    [rec EXCEPT !.pc = IF ~engine.is_running THEN AfterStop(rec)
                       ELSE "stop_is_running"]

StopCall(t) ==
    /\ ext[t].pc = "idle"
    /\ ext' = [ext EXCEPT ![t] = StopEnter(Called("stop"))]
    /\ calls > 0
    /\ calls' = calls - 1
    /\ UNCHANGED <<ents, ecos, engine, tk, wk, ret>>

\* self.is_running = False
StopSetRunning(t) ==
    /\ ext[t].pc = "stop_is_running"
    /\ engine' = [engine EXCEPT !.is_running = FALSE]
    /\ ext' = [ext EXCEPT ![t].pc = "stop_is_paused"]
    /\ UNCHANGED <<ents, ecos, tk, wk, calls, ret>>

\* self.is_paused = False
StopSetPaused(t) ==
    /\ ext[t].pc = "stop_is_paused"
    /\ engine' = [engine EXCEPT !.is_paused = FALSE]
    /\ ext' = [ext EXCEPT ![t].pc = "stop_stop_event"]
    /\ UNCHANGED <<ents, ecos, tk, wk, calls, ret>>

\* self.stop_event.set()
StopSetEvent(t) ==
    /\ ext[t].pc = "stop_stop_event"
    /\ engine' = [engine EXCEPT !.stop_event = TRUE]
    /\ ext' = [ext EXCEPT ![t].pc = "stop_is_alive"]
    /\ UNCHANGED <<ents, ecos, tk, wk, calls, ret>>

\* if self.simulation_thread and self.simulation_thread.is_alive(): the
\* thread stop() is about to join
StopIsAlive(t) ==
    /\ ext[t].pc = "stop_is_alive"
    /\ ext' = [ext EXCEPT ![t] =
                 IF engine.simulation_thread # None
                    /\ IsAlive(engine.simulation_thread)
                 THEN [@ EXCEPT !.pc = "join", !.joined = engine.simulation_thread]
                 ELSE [@ EXCEPT !.pc = AfterStop(ext[t])]]
    /\ UNCHANGED <<ents, ecos, engine, tk, wk, calls, ret>>

\* self.simulation_thread.join(), and stop() returns
StopJoin(t) ==
    /\ ext[t].pc = "join"
    /\ JoinReturns(ext[t].joined)
    /\ ext' = [ext EXCEPT ![t].pc = AfterStop(ext[t]), ![t].joined = None]
    /\ UNCHANGED <<ents, ecos, engine, tk, wk, calls, ret>>

\* reset(new_config): was_running = self.is_running; opt is {} for no
\* config, {cfg} for one
ResetCall(t, opt) ==
    /\ ext[t].pc = "idle"
    /\ ext' = [ext EXCEPT ![t] =
                 [Called("reset") EXCEPT !.was_running = engine.is_running,
                                         !.new_config = opt,
                                         !.pc = "reset_stop"]]
    /\ calls > 0
    /\ calls' = calls - 1
    /\ UNCHANGED <<ents, ecos, engine, tk, wk, ret>>

\* self.stop()
ResetStop(t) ==
    /\ ext[t].pc = "reset_stop"
    /\ ext' = [ext EXCEPT ![t] = StopEnter(@)]
    /\ UNCHANGED <<ents, ecos, engine, tk, wk, calls, ret>>

\* the configuration the new orchestrator is built from
ResetKeepsConfig(cfg, opt) == cfg

ResetConfig(cfg, opt) == IF opt = {} THEN cfg ELSE CHOOSE c \in opt : TRUE

\* if new_config: self.config = new_config
ResetSetConfig(t) ==
    /\ ext[t].pc = "reset_config"
    /\ engine' = [engine EXCEPT !.config = ResetConfig(@, ext[t].new_config)]
    /\ ext' = [ext EXCEPT ![t].pc = "reset_ecosystem"]
    /\ UNCHANGED <<ents, ecos, tk, wk, calls, ret>>

\* self.ecosystem = EcosystemState(self.config): a new orchestrator, whose
\* individuals are new objects of the heap
ResetSetEcosystem(t) ==
    /\ ext[t].pc = "reset_ecosystem"
    /\ \E es \in FreshHeaps(RegisteredCounts(engine.config), ClockSeedXs) :
          /\ ents' = ents \o es
          /\ ecos' = Append(ecos, NewEcosystem(engine.config, Len(ents)))
    /\ engine' = [engine EXCEPT !.ecosystem = Len(ecos) + 1]
    /\ ext' = [ext EXCEPT ![t].pc = "reset_was_running"]
    /\ UNCHANGED <<tk, wk, calls, ret>>

ResetNeverRestarts(t) ==
    /\ ext[t].pc = "reset_was_running"
    /\ ext' = [ext EXCEPT ![t].pc = "idle"]
    /\ UNCHANGED <<ents, ecos, engine, tk, wk, calls, ret>>

\* if was_running: self.start()
ResetRestart(t) ==
    /\ ext[t].pc = "reset_was_running"
    /\ ext' = [ext EXCEPT ![t] =
                 IF ext[t].was_running THEN StartEnter(@)
                 ELSE [@ EXCEPT !.pc = "idle"]]
    /\ UNCHANGED <<ents, ecos, engine, tk, wk, calls, ret>>

\* the statements of start(), stop() and reset() after the call
LifecycleStep(t) ==
    \/ StartSetRunning(t)
    \/ StartSetPaused(t)
    \/ StartClearEvent(t)
    \/ StartThread(t)
    \/ StopSetRunning(t)
    \/ StopSetPaused(t)
    \/ StopSetEvent(t)
    \/ StopIsAlive(t)
    \/ StopJoin(t)
    \/ ResetStop(t)
    \/ ResetSetConfig(t)
    \/ ResetSetEcosystem(t)
    \/ ResetRestart(t)

\* step(): `if self.is_running: return`
StepNeverRejected(eng) == FALSE

StepRejected(eng) == eng.is_running

\* the ticks of one orchestrator the model follows
MaxClockTicks == 1

\* step(): the guard, and the call of _update_ecosystem
StepCall(t) ==
    /\ ext[t].pc = "idle"
    /\ IF StepRejected(engine)
       THEN /\ ext' = [ext EXCEPT ![t] = Called("step")]
            /\ tk' = tk
       ELSE /\ ecos[engine.ecosystem].time_step < MaxClockTicks
            /\ ext' = [ext EXCEPT ![t] =
                         [Called("step") EXCEPT !.pc = "_update_ecosystem"]]
            /\ BeginTick(t)
    /\ calls > 0
    /\ calls' = calls - 1
    /\ UNCHANGED <<ents, ecos, engine, wk, ret>>

\* pause(): self.is_paused = True
PauseCall(t) ==
    /\ ext[t].pc = "idle"
    /\ engine' = [engine EXCEPT !.is_paused = TRUE]
    /\ ext' = [ext EXCEPT ![t] = Called("pause")]
    /\ calls > 0
    /\ calls' = calls - 1
    /\ UNCHANGED <<ents, ecos, tk, wk, ret>>

\* resume(): self.is_paused = False
ResumeCall(t) ==
    /\ ext[t].pc = "idle"
    /\ engine' = [engine EXCEPT !.is_paused = FALSE]
    /\ ext' = [ext EXCEPT ![t] = Called("resume")]
    /\ calls > 0
    /\ calls' = calls - 1
    /\ UNCHANGED <<ents, ecos, tk, wk, ret>>

\* simulation_speed in tenths: the bounds 0.1 and 5.0 of set_speed
SpeedFloor == 1
SpeedCeiling == 50

SetSpeedUnclamped(speed) == speed

\* max(0.1, min(5.0, speed))
SetSpeed(speed) == Max(SpeedFloor, Min(SpeedCeiling, speed))

\* set_speed(speed): self.simulation_speed = max(0.1, min(5.0, speed))
SetSpeedCall(t, speed) ==
    /\ ext[t].pc = "idle"
    /\ engine' = [engine EXCEPT !.simulation_speed = SetSpeed(speed)]
    /\ ext' = [ext EXCEPT ![t] = [Called("set_speed") EXCEPT !.speed = speed]]
    /\ calls > 0
    /\ calls' = calls - 1
    /\ UNCHANGED <<ents, ecos, tk, wk, ret>>

\* update_config(new_config): self.config = new_config
UpdateConfigCall(t, cfg) ==
    /\ ext[t].pc = "idle"
    /\ engine' = [engine EXCEPT !.config = cfg]
    /\ ext' = [ext EXCEPT ![t] = Called("update_config")]
    /\ calls > 0
    /\ calls' = calls - 1
    /\ UNCHANGED <<ents, ecos, tk, wk, ret>>

\* BaseIndividualData(id=id(individual), ...)
IndividualData(E, id) ==
    [id |-> id, position |-> E[id].position, energy |-> E[id].energy,
     age |-> E[id].age, alive |-> E[id].alive,
     max_energy |-> MaxEnergy(E[id].kind)]

\* get_species_data: the data of the alive individuals of each list
GetSpeciesData(E, eco) ==
    [name \in {"grass", "cow", "tiger"} |->
        [j \in 1..Len(SelectIds(E, eco.registry[name], TRUE)) |->
            IndividualData(E, SelectIds(E, eco.registry[name], TRUE)[j])]]

\* get_data(): the call
GetDataCall(t) ==
    /\ ext[t].pc = "idle"
    /\ ext' = [ext EXCEPT ![t] =
                 [Called("get_data") EXCEPT !.pc = "get_species_data"]]
    /\ calls > 0
    /\ calls' = calls - 1
    /\ UNCHANGED <<ents, ecos, engine, tk, wk, ret>>

\* 'ecosystem_state': self.ecosystem.get_species_data()
GetDataSpeciesData(t) ==
    /\ ext[t].pc = "get_species_data"
    /\ ext' = [ext EXCEPT
                 ![t].data.ecosystem_state =
                     GetSpeciesData(ents, ecos[engine.ecosystem]),
                 ![t].pc = "get_species_counts"]
    /\ UNCHANGED <<ents, ecos, engine, tk, wk, calls, ret>>

\* 'species_counts': self.ecosystem.get_species_counts()
GetDataSpeciesCounts(t) ==
    /\ ext[t].pc = "get_species_counts"
    /\ ext' = [ext EXCEPT
                 ![t].data.species_counts = SpeciesCounts(ecos[engine.ecosystem]),
                 ![t].pc = "statistics"]
    /\ UNCHANGED <<ents, ecos, engine, tk, wk, calls, ret>>

\* 'statistics': {...}, the three flags, and get_data returns
GetDataStatistics(t) ==
    /\ ext[t].pc = "statistics"
    /\ ext' = [ext EXCEPT
                 ![t].data.time_step = ecos[engine.ecosystem].time_step,
                 ![t].data.births = ecos[engine.ecosystem].births,
                 ![t].data.deaths = ecos[engine.ecosystem].deaths,
                 ![t].data.population_history =
                     ecos[engine.ecosystem].population_history,
                 ![t].data.is_running = engine.is_running,
                 ![t].data.is_paused = engine.is_paused,
                 ![t].data.simulation_speed = engine.simulation_speed,
                 ![t].pc = "idle"]
    /\ UNCHANGED <<ents, ecos, engine, tk, wk, calls, ret>>

GetDataStep(t) ==
    \/ GetDataSpeciesData(t)
    \/ GetDataSpeciesCounts(t)
    \/ GetDataStatistics(t)

-----------------------------------------------------------------------------
(* SimulationEngine._simulation_loop                                       *)

WorkerWhileTrue(w) ==
    /\ wk[w] = "while"
    /\ ecos[engine.ecosystem].time_step < MaxClockTicks
    /\ wk' = [wk EXCEPT ![w] = "if_paused"]
    /\ UNCHANGED <<ents, ecos, engine, tk, ext, calls, ret>>

\* while self.is_running and not self.stop_event.is_set(); a worker whose
\* orchestrator has run its MaxClockTicks ticks stays asleep while the test
\* would let it in
WorkerWhile(w) ==
    /\ wk[w] = "while"
    /\ IF engine.is_running /\ ~engine.stop_event
       THEN /\ ecos[engine.ecosystem].time_step < MaxClockTicks
            /\ wk' = [wk EXCEPT ![w] = "if_paused"]
       ELSE wk' = [wk EXCEPT ![w] = "dead"]
    /\ UNCHANGED <<ents, ecos, engine, tk, ext, calls, ret>>

WorkerNeverPaused(w) ==
    /\ wk[w] = "if_paused"
    /\ wk' = [wk EXCEPT ![w] = "_update_ecosystem"]
    /\ BeginTick(w)
    /\ UNCHANGED <<ents, ecos, engine, ext, calls, ret>>

WorkerEndsWhenPaused(w) ==
    /\ wk[w] = "if_paused"
    /\ IF ~engine.is_paused
       THEN /\ wk' = [wk EXCEPT ![w] = "_update_ecosystem"]
            /\ BeginTick(w)
       ELSE /\ wk' = [wk EXCEPT ![w] = "dead"]
            /\ tk' = tk
    /\ UNCHANGED <<ents, ecos, engine, ext, calls, ret>>

\* if not self.is_paused: self._update_ecosystem()
WorkerIfPaused(w) ==
    /\ wk[w] = "if_paused"
    /\ IF ~engine.is_paused
       THEN /\ wk' = [wk EXCEPT ![w] = "_update_ecosystem"]
            /\ BeginTick(w)
       ELSE /\ wk' = [wk EXCEPT ![w] = "sleep"]
            /\ tk' = tk
    /\ UNCHANGED <<ents, ecos, engine, ext, calls, ret>>

\* time.sleep(sleep_time)
WorkerSleep(w) ==
    /\ wk[w] = "sleep"
    /\ wk' = [wk EXCEPT ![w] = "while"]
    /\ UNCHANGED <<ents, ecos, engine, tk, ext, calls, ret>>

WorkerStep(w) ==
    \/ WorkerWhile(w)
    \/ WorkerIfPaused(w)
    \/ WorkerSleep(w)

-----------------------------------------------------------------------------
(* SpecClock: the engine with its worker and one caller thread, as in      *)
(* main.py; SpecRace: the engine called by two threads                     *)

MaxCalls == 4
MaxRaceCalls == 2

ClockCallers == {"t1"}

ClockConfigs == {Config(WorldWidth, WorldHeight, 1, 1, 0)}

NewConfigs == {Config(WorldWidth, WorldHeight, 1, 0, 0)}

\* SimulationEngine(config), and callers with n calls to make
EngineInit(n) ==
    \E cfg \in ClockConfigs : \E es \in FreshHeaps(RegisteredCounts(cfg), ClockSeedXs) :
        /\ ents = es
        /\ ecos = <<NewEcosystem(cfg, 0)>>
        /\ engine = NewEngine(cfg)
        /\ tk = [t \in Threads |-> TkIdle]
        /\ ext = [t \in ExtThreads |-> ExtIdle]
        /\ wk = [w \in Workers |-> "unborn"]
        /\ calls = n
        /\ ret = NoResult

InitClock == EngineInit(MaxCalls)

InitRace == EngineInit(MaxRaceCalls)

LifecycleCall(t) ==
    \/ StartCall(t)
    \/ StopCall(t)
    \/ \E opt \in {{}} \cup {{c} : c \in NewConfigs} : ResetCall(t, opt)
    \/ StepCall(t)

ControlCall(t) ==
    \/ PauseCall(t)
    \/ ResumeCall(t)
    \/ \E cfg \in NewConfigs : UpdateConfigCall(t, cfg)
    \/ GetDataCall(t)

NextClock ==
    \/ \E t \in ClockCallers :
          \/ LifecycleCall(t)
          \/ ControlCall(t)
          \/ LifecycleStep(t)
          \/ GetDataStep(t)
          \/ TickStep(t)
    \/ \E w \in Workers :
          \/ WorkerStep(w)
          \/ TickStep(w)

SpecClock == InitClock /\ [][NextClock]_vars

NextRace ==
    \/ \E t \in ExtThreads :
          \/ LifecycleCall(t)
          \/ LifecycleStep(t)
          \/ TickStep(t)
    \/ \E w \in Workers :
          \/ WorkerStep(w)
          \/ TickStep(w)

SpecRace == InitRace /\ [][NextRace]_vars

-----------------------------------------------------------------------------
(* SpecSpeed: the engine with one caller that starts it, steps it, pauses  *)
(* it and sets its speed                                                    *)

MaxSpeedCalls == 3

\* speeds passed to set_speed, in tenths: below, at and between the bounds,
\* and above
SpeedArgs == {-10, 0, 1, 3, 10, 50, 51, 80}

InitSpeed == EngineInit(MaxSpeedCalls)

NextSpeed ==
    \/ \E t \in ClockCallers :
          \/ \E speed \in SpeedArgs : SetSpeedCall(t, speed)
          \/ StartCall(t)
          \/ StartSetRunning(t)
          \/ StartSetPaused(t)
          \/ StartClearEvent(t)
          \/ StartThread(t)
          \/ PauseCall(t)
          \/ StepCall(t)
          \/ TickStep(t)
    \/ \E w \in Workers :
          \/ WorkerStep(w)
          \/ TickStep(w)

SpecSpeed == InitSpeed /\ [][NextSpeed]_vars

-----------------------------------------------------------------------------
(* Properties of the entity model and the orchestrator, under Spec         *)

Ids == DOMAIN ents

\* the entity is inside its own update, past the energy consumption and
\* before the end of the starvation check
BetweenConsumptionAndDeathCheck(id) ==
    \E t \in Threads :
        /\ tk[t].pc \in {"feed", "age_one_step", "death_check"}
        /\ CurId(t) = id

\* C1: death_reason is set exactly when alive is false; a dead entity is
\* never alive again; and its death_reason stays the one the first die()
\* recorded, whatever update, die or predation step follows.  (A step that
\* changes `calls` is a reset, which discards every object of the heap.)
C1_DeathRecordedOnce ==
    [][calls' = calls =>
        \A id \in Ids :
            /\ (ents[id].death_reason # None) <=> ~ents[id].alive
            /\ (ents'[id].death_reason # None) <=> ~ents'[id].alive
            /\ ~ents[id].alive =>
                  /\ ~ents'[id].alive
                  /\ ents'[id].death_reason = ents[id].death_reason]_vars

\* C1 witness: a grass died of old age in age_one_step and the update's own
\* later die() call has run
C1_Witness ==
    \E id \in Ids :
        /\ ents[id].kind = "grass"
        /\ ents[id].age >= 2000
        /\ ents[id].death_reason = "Old age"
        /\ tk[MainThread].pc = "handle_reproduction"

\* C2 as stated: in every reachable state, sub-steps of an update included,
\* an alive entity has 0 <= energy <= max_energy
C2_EnergyBoundAtAllTimes ==
    \A id \in Ids :
        ents[id].alive =>
            /\ 0 <= ents[id].energy
            /\ ents[id].energy <= 4 * EnergyArg(ents[id].kind)

\* C2 amended: an alive entity has energy <= max_energy in every state, and
\* 0 <= energy in every state except between the energy consumption and the
\* starvation check of its own update, where energy > -energy_consumption
C2_EnergyBoundOutsideUpdate ==
    \A id \in Ids :
        ents[id].alive =>
            /\ ents[id].energy <= 4 * EnergyArg(ents[id].kind)
            /\ IF BetweenConsumptionAndDeathCheck(id)
               THEN ents[id].energy > 0 - EnergyConsumption(ents[id].kind)
               ELSE 0 <= ents[id].energy

\* C2 witness: an alive animal with negative energy inside its update
C2_Witness ==
    \E id \in Ids :
        /\ ents[id].alive
        /\ ents[id].energy < 0
        /\ BetweenConsumptionAndDeathCheck(id)

\* C3: a reproduce() that returns an offspring (the step in which the
\* thread's new_individuals grows) was called on an entity that was alive,
\* with reproduction_cooldown 0, energy >= 2 x reproduction_energy_cost and
\* the species gate (Cow age > 20, Tiger age > 30), and it leaves the parent
\* with exactly reproduction_energy_cost less energy and the cooldown of
\* its species (Grass 10, Cow 200, Tiger 800)
C3_ReproductionGated ==
    [][\A t \in Threads :
          Len(tk'[t].new_individuals) > Len(tk[t].new_individuals) =>
             LET e == ents[CurId(t)]
                 after == ents'[CurId(t)]
                 cost == CASE e.kind = "grass" -> 40 * EnergyUnit
                           [] e.kind = "cow"   -> 400 * EnergyUnit
                           [] e.kind = "tiger" -> 4000 * EnergyUnit
             IN  /\ e.alive
                 /\ e.reproduction_cooldown = 0
                 /\ e.energy >= 2 * cost
                 /\ e.kind = "cow" => e.age > 20
                 /\ e.kind = "tiger" => e.age > 30
                 /\ after.energy = e.energy - cost
                 /\ after.reproduction_cooldown =
                       CASE e.kind = "grass" -> 10
                         [] e.kind = "cow"   -> 200
                         [] e.kind = "tiger" -> 800]_vars

\* C3 witness: a cow's reproduce() has returned an offspring
C3_Witness ==
    \E t \in Threads :
        /\ tk[t].pc \in {"reproduce", "extend"}
        /\ tk[t].new_individuals # <<>>
        /\ ents[tk[t].new_individuals[1]].kind = "cow"
        /\ ents[tk[t].snap[1]].reproduction_cooldown = 200

\* C4 as stated: after the orchestrator's reset(cfg) (no tick begun since),
\* time_step is 0, the tallies are 0, the history is empty and every
\* species' registry count is the initial count of the configuration now in
\* force
C4_ResetSeedsFromConfig ==
    (calls < MaxResets /\ tk[MainThread].pc = "idle" /\ ecos[1].time_step = 0) =>
        /\ ecos[1].births = ZeroStatistics
        /\ ecos[1].deaths = ZeroStatistics
        /\ ecos[1].population_history = <<>>
        /\ Len(ecos[1].registry["grass"]) = ecos[1].config.initial_grass
        /\ Len(ecos[1].registry["cow"]) = ecos[1].config.initial_cows
        /\ Len(ecos[1].registry["tiger"]) = ecos[1].config.initial_tigers


-----------------------------------------------------------------------------
(* Properties of the stepping clock, under SpecClock and SpecRace          *)

\* the orchestrator the engine holds
Ecosystem == ecos[engine.ecosystem]

\* C5: in a clock driven by one caller thread, reset(config?) replaces the
\* orchestrator only when no worker is alive or inside a tick; the new
\* orchestrator has time_step 0, zero tallies and an empty history and is
\* seeded with the initial counts of the supplied config, or of the stored
\* config when none is supplied; and when reset returns, the clock is
\* running (flag set, a worker alive) exactly if it was running at the call.
C5_ResetRebuildsOrchestrator ==
    [][\A t \in ExtThreads :
          ext[t].op = "reset" =>
             /\ engine'.ecosystem # engine.ecosystem =>
                   /\ \A w \in Workers : ~IsAlive(w) /\ tk[w].pc = "idle"
                   /\ ecos'[engine'.ecosystem].time_step = 0
                   /\ ecos'[engine'.ecosystem].population_history = <<>>
                   /\ ecos'[engine'.ecosystem].births = ZeroStatistics
                   /\ ecos'[engine'.ecosystem].deaths = ZeroStatistics
                   /\ SpeciesCounts(ecos'[engine'.ecosystem]) =
                         RegisteredCounts(
                            IF ext[t].new_config = {} THEN engine.config
                            ELSE CHOOSE c \in ext[t].new_config : TRUE)
                   /\ \A name \in {"grass", "cow", "tiger"} :
                         \A j \in 1..Len(ecos'[engine'.ecosystem].registry[name]) :
                            ents'[ecos'[engine'.ecosystem].registry[name][j]] \in
                               {NewEntity(name, Pos(x, SeedY)) : x \in ClockSeedXs}
             /\ (ext[t].pc # "idle" /\ ext'[t].pc = "idle") =>
                   /\ engine'.is_running <=> ext[t].was_running
                   /\ engine'.is_running <=>
                         \E w \in Workers : wk'[w] \notin {"unborn", "dead"}]_vars

\* reset() has returned on a clock that was running, with no config
\* supplied after update_config stored one: the second orchestrator is
\* seeded from the stored config and the clock runs again
C5_Witness ==
    \E t \in ExtThreads :
        /\ ext[t].op = "reset" /\ ext[t].pc = "idle"
        /\ ext[t].was_running /\ ext[t].new_config = {}
        /\ engine.ecosystem = 2
        /\ Ecosystem.config \in NewConfigs
        /\ SpeciesCounts(Ecosystem) = RegisteredCounts(Ecosystem.config)
        /\ engine.is_running
        /\ \E w \in Workers : IsAlive(w)

C7_AtMostOneWorker ==
    Cardinality({w \in Workers : IsAlive(w)}) <= 1

\* C8: in a clock driven by one caller thread, once stop() has returned and
\* until the caller's next call, no worker is alive or inside a tick, and no
\* step changes the orchestrators or the individuals.
C8_StopJoinsWorker ==
    [][\A t \in ExtThreads :
          (ext[t].op = "stop" /\ ext[t].pc = "idle") =>
             /\ \A w \in Workers : ~IsAlive(w) /\ tk[w].pc = "idle"
             /\ ext'[t].op = "stop" => (ecos' = ecos /\ ents' = ents)]_vars

\* stop() has returned on a clock whose worker had run a tick
C8_Witness ==
    \E t \in ExtThreads :
        /\ ext[t].op = "stop" /\ ext[t].pc = "idle"
        /\ engine.simulation_thread # None
        /\ wk[engine.simulation_thread] = "dead"
        /\ Ecosystem.time_step = 1
        /\ ~engine.is_running /\ engine.stop_event

\* C9: at most one thread is inside _update_ecosystem at any time, whatever
\* the interleaving of the worker with the callers' step(), start(), stop()
\* and reset() calls.
C9_TicksSequential ==
    Cardinality({t \in Threads : tk[t].pc # "idle"}) <= 1

\* C10: what get_data() has returned to a caller thread describes a tick
\* boundary: each species' count is the length of its list of individuals
\* and is the initial count plus the births minus the deaths tallied, and the
\* history has one entry per counted time step.
C10_GetDataAtTickBoundary ==
    \A t \in ExtThreads :
        (ext[t].op = "get_data" /\ ext[t].pc = "idle") =>
            /\ \A name \in {"grass", "cow", "tiger"} :
                  /\ ext[t].data.species_counts[name] =
                        Len(ext[t].data.ecosystem_state[name])
                  /\ ext[t].data.species_counts[name] =
                        Ecosystem.initial_count[name]
                           + ext[t].data.births[name] - ext[t].data.deaths[name]
            /\ Len(ext[t].data.population_history) = ext[t].data.time_step

-----------------------------------------------------------------------------
(* Properties of the orchestrator's queries and scenarios                  *)

\* the elements of a sequence
Range(q) == {q[j] : j \in DOMAIN q}

\* C11: what check_extinction() has returned to the caller, who has made no
\* other call since, lists each species at most once and lists exactly the
\* species whose registry list is empty in the current state; in particular
\* an orchestrator built with initial_tigers = 0 reports "tiger" before any
\* tick.
C11_ExtinctionIsCurrentZeroCount ==
    ret.op = "check_extinction" =>
        /\ Len(ret.value) = Cardinality(Range(ret.value))
        /\ Range(ret.value) =
              {name \in {"grass", "cow", "tiger"} :
                  Len(ecos[1].registry[name]) = 0}
        /\ (ecos[1].config.initial_tigers = 0 /\ calls = MaxResets
               /\ ecos[1].time_step = 0) => "tiger" \in Range(ret.value)

\* C11 witness: before any tick or reset, check_extinction() of an
\* orchestrator built with no tiger has returned the tiger species alone
C11_Witness ==
    /\ ret.op = "check_extinction"
    /\ ret.value = <<"tiger">>
    /\ ecos[1].config.initial_tigers = 0
    /\ ecos[1].time_step = 0
    /\ calls = MaxResets


\* the first tick of a world seeded with one grass and one cow has completed
\* and the two stand on the same spot (entity 1 is the grass, 2 the cow)
GrazingTickDone ==
    /\ tk[MainThread].pc = "idle"
    /\ calls = MaxResets
    /\ ecos[1].time_step = 1
    /\ ecos[1].config = Config(WorldWidth, WorldHeight, 1, 1, 0)
    /\ ents[1].position = ents[2].position

\* the seeded individual id as it was before its first update (an update adds
\* one to the age, and the seeded ages of a kind differ by more than one)
BeforeFirstTick(id) ==
    CHOOSE p \in Profiles(ents[id].kind) : p.age + 1 = ents[id].age

\* the energy of the seeded individual id at the end of the update phase of
\* its first tick: a parent that reproduced in the tick (its cooldown was 0
\* before, and is set now) has paid reproduction_energy_cost since
AfterFirstUpdate(id) ==
    IF ents[id].reproduction_cooldown > 0
    THEN ents[id].energy + ReproductionEnergyCost(ents[id].kind)
    ELSE ents[id].energy

\* C13 (as stated): after one tick of a grass and a cow on the same spot the
\* grass is dead by predation by the cow and the cow's energy is its energy
\* before the tick plus the grass's energy at death, clamped to max_energy.
C13_CowGainsGrassEnergy ==
    GrazingTickDone =>
        /\ ~ents[1].alive
        /\ ents[1].death_reason = "Predation by Cow"
        /\ AfterFirstUpdate(2) = Min(MaxEnergy("cow"),
                                   BeforeFirstTick(2).energy + ents[1].energy)

\* C13 (amended): after one tick of a grass and a cow on the same spot, a
\* grass that does not reach max_age in that tick is dead by predation by the
\* cow, it died with its energy before the tick plus the growth of that tick
\* (clamped to its max_energy), and the cow's energy is its energy before the
\* tick less its energy_consumption plus the grass's energy at death, clamped
\* to the cow's max_energy (and less reproduction_energy_cost afterwards when
\* the cow reproduces in that tick).  A grass that reaches max_age in that tick dies of
\* old age before the cow feeds, and the cow gains nothing.
C13_CowGainsGrassEnergyLessConsumption ==
    GrazingTickDone =>
        LET grass == BeforeFirstTick(1)
            cow == BeforeFirstTick(2)
        IN  /\ ents[1].kind = "grass" /\ ents[2].kind = "cow"
            /\ ~ents[1].alive
            /\ ents[1].energy = Min(MaxEnergy("grass"),
                                    grass.energy + CompetitionAdjustedGrowthRate(0))
            /\ ecos[1].registry["grass"] = <<>>
            /\ ecos[1].deaths["grass"] = 1
            /\ IF grass.age + 1 < MaxAge("grass")
               THEN /\ ents[1].death_reason = "Predation by Cow"
                    /\ AfterFirstUpdate(2) =
                            Min(MaxEnergy("cow"),
                                cow.energy - EnergyConsumption("cow")
                                    + ents[1].energy)
               ELSE /\ ents[1].death_reason = "Old age"
                    /\ AfterFirstUpdate(2) = cow.energy - EnergyConsumption("cow")

\* a new grass was eaten by a new cow
C13_Witness ==
    /\ GrazingTickDone
    /\ BeforeFirstTick(1) = NewEntity("grass", Pos(0, SeedY))
    /\ BeforeFirstTick(2) = NewEntity("cow", Pos(0, SeedY))
    /\ ents[1].death_reason = "Predation by Cow"
    /\ ents[2].energy > BeforeFirstTick(2).energy

\* a grass was eaten by a cow whose gain was clamped to max_energy
GrazingGainClamped ==
    /\ GrazingTickDone
    /\ ents[1].death_reason = "Predation by Cow"
    /\ AfterFirstUpdate(2) = MaxEnergy("cow")
    /\ BeforeFirstTick(2).energy - EnergyConsumption("cow") + ents[1].energy
          > MaxEnergy("cow")


\* the individuals of a species ever created in the ecosystem since its
\* construction or last reset (the caller's heap holds no others)
EverCreated(name) == {id \in DOMAIN ents : ents[id].kind = name}

\* C14: at every tick boundary since construction or reset, for every species
\* the registry count is the initial count plus the births tallied minus the
\* deaths tallied; the births tallied are the individuals created after the
\* seeding, the deaths tallied are the individuals that have died (each one
\* counted once), and the registry lists exactly the living ones, each once.
C14_PopulationConservation ==
    tk[MainThread].pc = "idle" =>
        \A name \in {"grass", "cow", "tiger"} :
            LET eco == ecos[1]
                list == eco.registry[name]
            IN  /\ Len(list) = eco.initial_count[name] + eco.births[name]
                                   - eco.deaths[name]
                /\ eco.births[name] =
                       Cardinality(EverCreated(name)) - eco.initial_count[name]
                /\ eco.deaths[name] =
                       Cardinality({id \in EverCreated(name) : ~ents[id].alive})
                /\ Range(list) = {id \in EverCreated(name) : ents[id].alive}
                /\ Cardinality(Range(list)) = Len(list)

\* two ticks in which individuals were born and died
C14_Witness ==
    /\ tk[MainThread].pc = "idle"
    /\ ecos[1].time_step = MaxTicks
    /\ \E name \in {"grass", "cow", "tiger"} :
          ecos[1].births[name] > 0 /\ ecos[1].deaths[name] > 0
    /\ \E name \in {"grass", "cow", "tiger"} : ecos[1].deaths[name] > 1


\* no thread is in a tick body and no caller is inside an operation
NoTickInProgress ==
    /\ \A w \in Workers : wk[w] # "_update_ecosystem"
    /\ \A t \in ExtThreads : ext[t].pc = "idle"

\* C16: while the pause flag is set a worker begins no tick body, and once the
\* tick that was in progress has returned, time_step, the registry and the
\* individuals stay as they are for as long as the flag stays set and no
\* caller steps or resets; pause() and resume() change no worker's position
\* in its loop (the worker is not ended) and leave the running flag, the stop
\* event and the worker thread as they are.
C16_PauseHoldsWorker ==
    [][/\ engine.is_paused =>
            \A w \in Workers :
                wk[w] # "_update_ecosystem" => wk'[w] # "_update_ecosystem"
       /\ (engine.is_paused /\ engine'.is_paused /\ NoTickInProgress
              /\ \A t \in ExtThreads : ext'[t].pc = "idle")
            => UNCHANGED <<ents, ecos>>
       /\ (\E t \in ExtThreads :
              /\ ext[t].pc = "idle" /\ ext'[t].pc = "idle"
              /\ ext'[t].op \in {"pause", "resume"}
              /\ calls' = calls - 1)
            => /\ wk' = wk
               /\ engine'.is_running = engine.is_running
               /\ engine'.stop_event = engine.stop_event
               /\ engine'.simulation_thread = engine.simulation_thread
               /\ UNCHANGED <<ents, ecos, tk>>]_vars

\* pause() was the caller's last call, the engine is running and paused, and
\* its worker has been through its loop without running a tick
C16_Witness ==
    /\ engine.is_running /\ engine.is_paused
    /\ \E t \in ClockCallers : ext[t].op = "pause" /\ ext[t].pc = "idle"
    /\ engine.simulation_thread \in Workers
    /\ wk[engine.simulation_thread] = "sleep"
    /\ ecos[engine.ecosystem].time_step = 0
    /\ \A id \in DOMAIN ents : ents[id].age = 0


\* C17: for every speed, after set_speed(speed) the stored speed is
\* max(0.1, min(5.0, speed)), and the call changes nothing else: time_step,
\* the registry, the tallies, the individuals, the running and paused flags,
\* and where the worker and the ticks in progress stand.
C17_SetSpeedClampsAndOnlySetsSpeed ==
    [][\A t \in ExtThreads :
          (ext[t].pc = "idle" /\ ext'[t].pc = "idle"
              /\ ext'[t].op = "set_speed" /\ calls' = calls - 1)
          => LET x == ext'[t].speed
             IN  /\ engine'.simulation_speed =
                        (IF x < 1 THEN 1 ELSE IF x > 50 THEN 50 ELSE x)
                 /\ engine' = [engine EXCEPT
                                  !.simulation_speed = engine'.simulation_speed]
                 /\ UNCHANGED <<ents, ecos, tk, wk>>]_vars

\* set_speed was called with a speed above 5.0 on a running, paused engine
\* whose worker has completed a tick
C17_Witness ==
    /\ \E t \in ClockCallers :
          ext[t].pc = "idle" /\ ext[t].op = "set_speed" /\ ext[t].speed > 50
    /\ engine.simulation_speed = 50
    /\ engine.is_running /\ engine.is_paused
    /\ ecos[engine.ecosystem].time_step = 1


\* the phase of _update_ecosystem a position of a tick lies in: 1 update (the
\* context it is handed included), 2 reproduction, 3 cleanup, 4 statistics,
\* 5 counter increment, and 0 outside a tick
PhaseOf(pc) ==
    CASE pc = "idle" -> 0
      [] pc \in {"get_ecosystem_state", "update_species", "Species_update",
                 "grow", "intelligent_move", "consume_energy", "feed",
                 "age_one_step", "death_check"} -> 1
      [] pc \in {"handle_reproduction", "reproduce", "extend"} -> 2
      [] pc = "cleanup_dead" -> 3
      [] pc = "update_statistics" -> 4
      [] pc \in {"increment", "store"} -> 5

UpdatePositions ==
    {"Species_update", "grow", "intelligent_move", "consume_energy", "feed",
     "age_one_step", "death_check"}

\* the individuals created by reproduce() since construction or reset
Offspring == {id \in DOMAIN ents : id > SeedTotal(ecos[1].initial_count)}

\* an individual as its constructor left it
AsCreated(id) == ents[id] = NewEntity(ents[id].kind, ents[id].position)

\* C22: an individual is created only by reproduce() in the reproduction
\* phase, after the update phase of its tick; no individual is asked to
\* reproduce in the tick it was created in (every individual asked has been
\* through an update); at the end of that tick it is as its constructor left
\* it; and by the end of the next tick's update phase it has been updated.
C22_OffspringActNextTick ==
    [][LET pc == tk[MainThread].pc
       IN  /\ Len(ents') > Len(ents) =>
                /\ pc = "reproduce"
                /\ Len(ents') = Len(ents) + 1
                /\ ents'[Len(ents')].age = 0
           /\ pc \in UpdatePositions =>
                /\ CurId(MainThread) \in DOMAIN ents
                /\ CurId(MainThread) \notin Range(tk[MainThread].new_individuals)
           /\ pc = "reproduce" =>
                /\ ents[CurId(MainThread)].age > 0
                /\ CurId(MainThread) \notin Range(tk[MainThread].new_individuals)
           /\ (pc = "store" /\ tk'[MainThread].pc = "idle") =>
                \A id \in Offspring : ents'[id].age = 0 => AsCreated(id)
           /\ (pc \in UpdatePositions /\ tk'[MainThread].pc = "handle_reproduction") =>
                \A id \in DOMAIN ents : ents'[id].alive => ents'[id].age > 0
      ]_vars

\* in the second tick an offspring of the first tick is under its first
\* update, and an offspring of the second tick has been created
C22_Witness ==
    /\ ecos[1].time_step = 2
    /\ tk[MainThread].pc = "idle"
    /\ \E a, b \in Offspring :
          /\ ents[a].age = 1
          /\ ents[b].age = 0 /\ AsCreated(b)


\* C23: while the individuals of a species are being asked to reproduce, no
\* offspring of this tick (an individual not yet updated) is in the registry.
C23_RegistryExtendedAfterAllSpecies ==
    tk[MainThread].pc = "reproduce" =>
        \A id \in Offspring :
            ents[id].age = 0 =>
                \A name \in {"grass", "cow", "tiger"} :
                    id \notin Range(ecos[1].registry[name])


\* the individuals the registry lists
Registered(eco) ==
    UNION {Range(eco.registry[name]) : name \in {"grass", "cow", "tiger"}}

\* C24: between ticks the registry lists only alive individuals and no dead
\* one; the step in which an individual dies leaves it in its species list;
\* an individual leaves the registry only in the cleanup phase (a reset
\* apart), which removes from a species list exactly its dead; and a dead
\* individual is listed only from its death in the update phase to the
\* cleanup of that same tick.
C24_DeadRemovedInCleanupOfSameTick ==
    [][calls' = calls =>
        LET pc == tk[MainThread].pc
            gone == Registered(ecos[1]) \ Registered(ecos'[1])
        IN  /\ tk'[MainThread].pc = "idle" =>
                 /\ \A id \in Registered(ecos'[1]) : ents'[id].alive
                 /\ \A id \in DOMAIN ents' :
                       ~ents'[id].alive => id \notin Registered(ecos'[1])
            /\ \A id \in DOMAIN ents :
                  (ents[id].alive /\ ~ents'[id].alive) =>
                      /\ pc \in UpdatePositions
                      /\ id \in Registered(ecos[1])
                      /\ id \in Registered(ecos'[1])
            /\ gone # {} =>
                  /\ pc = "cleanup_dead"
                  /\ LET list == ecos[1].registry[SpeciesNames[tk[MainThread].sp]]
                     IN  gone = {id \in Range(list) : ~ents[id].alive}
            /\ pc = "cleanup_dead" =>
                  \A id \in Range(ecos'[1].registry[SpeciesNames[tk[MainThread].sp]]) :
                      ents'[id].alive
            /\ \A id \in Registered(ecos[1]) :
                  ~ents[id].alive =>
                      pc \in UpdatePositions
                          \cup {"handle_reproduction", "reproduce", "extend",
                                "cleanup_dead"}
      ]_vars

\* a cow that starved in the update phase is still in its list while the
\* reproduction phase runs
C24_Witness ==
    /\ tk[MainThread].pc = "reproduce"
    /\ \E id \in Range(ecos[1].registry["cow"]) :
          ~ents[id].alive /\ ents[id].death_reason = "Starvation"



C29_PausedOnlyWhileRunning ==
    (\A t \in ExtThreads : ext[t].pc = "idle") =>
        (engine.is_paused => engine.is_running)

\* pause() has returned on an engine that was never started
PausedWhileStopped ==
    /\ \A t \in ExtThreads : ext[t].pc = "idle"
    /\ engine.is_paused
    /\ ~engine.is_running
    /\ engine.simulation_thread = None


\* C35: a reproduce() that returns no offspring leaves every individual, the
\* parent with its energy and reproduction_cooldown included, as it was, and
\* adds nothing to the offspring collected for the species; a grass whose
\* offspring position would be on the border of the world gets no offspring;
\* and the births tallied for a species are the offspring collected.
C35_FailedReproductionChangesNothing ==
    [][LET pc == tk[MainThread].pc
       IN  /\ (pc = "reproduce" /\ Len(ents') = Len(ents)) =>
                 /\ ents' = ents
                 /\ tk'[MainThread].new_individuals = tk[MainThread].new_individuals
           /\ (pc = "reproduce" /\ Len(ents') > Len(ents)) =>
                 /\ CanReproduce(ents[CurId(MainThread)])
                 /\ ents[CurId(MainThread)].kind = "grass" =>
                       StrictlyInside(ents'[Len(ents')].position,
                                      WorldWidth, WorldHeight)
           /\ (pc = "extend" /\ calls' = calls) =>
                 LET name == SpeciesNames[tk[MainThread].sp]
                 IN  /\ ecos'[1].births[name] =
                            ecos[1].births[name] + Len(tk[MainThread].new_individuals)
                     /\ \A id \in Range(tk[MainThread].new_individuals) :
                            ents[id].age = 0 /\ ents[id].kind = name
      ]_vars

\* a grass at the right border, alive with max_energy and no cooldown, was
\* asked to reproduce and returned nothing: both offsets put the offspring
\* on the border
C35_Witness ==
    /\ tk[MainThread].pc = "extend"
    /\ tk[MainThread].sp = 1
    /\ tk[MainThread].new_individuals = <<>>
    /\ \E id \in Range(tk[MainThread].snap) :
          /\ ents[id].alive
          /\ ents[id].position.x = WorldWidth
          /\ ents[id].energy = MaxEnergy("grass")
          /\ ents[id].reproduction_cooldown = 0


\* C36: every individual's position lies within the world, 0 <= x <=
\* world_width and 0 <= y <= world_height, after seeding, movement and
\* reproduction; the position of a grass born in a tick is strictly inside.
C36_PositionsWithinWorld ==
    \A id \in DOMAIN ents :
        /\ ents[id].position.x >= 0
        /\ ents[id].position.x <= ecos[1].config.world_width
        /\ ents[id].position.y >= 0
        /\ ents[id].position.y <= ecos[1].config.world_height
        /\ (id \in Offspring /\ ents[id].kind = "grass") =>
              StrictlyInside(ents[id].position, ecos[1].config.world_width,
                             ecos[1].config.world_height)

\* the cow dead of old age before the tiger's move, the tiger seeded at the
\* right border moved at random and is still on the border: the move to the
\* right was clamped (the move to the left takes it off the border)
C36_Witness ==
    /\ tk[MainThread].pc = "idle"
    /\ calls = MaxResets
    /\ ecos[1].time_step = 1
    /\ \E c, g \in DOMAIN ents :
          /\ ents[c].kind = "cow"
          /\ ents[c].death_reason = "Old age"
          /\ ents[g].kind = "tiger"
          /\ ents[g].alive
          /\ ents[g].position.x = ecos[1].config.world_width


\* C38: a species whose registry list is empty, as it is between ticks once
\* its count is zero, keeps an empty list through every step of every later
\* tick, whatever the other species do; only a reset seeds it again.
C38_ExtinctionIsAbsorbing ==
    [][calls' = calls =>
          \A name \in {"grass", "cow", "tiger"} :
              Len(ecos[1].registry[name]) = 0 => Len(ecos'[1].registry[name]) = 0
      ]_vars

\* the grass, eaten in the first tick, is still extinct after the second, in
\* which the cow lived on
C38_Witness ==
    /\ tk[MainThread].pc = "idle"
    /\ calls = MaxResets
    /\ ecos[1].time_step = 2
    /\ ecos[1].initial_count["grass"] > 0
    /\ ecos[1].population_history[1]["grass"] = 0
    /\ ecos[1].population_history[2]["grass"] = 0
    /\ Len(ecos[1].registry["grass"]) = 0
    /\ Len(ecos[1].registry["cow"]) > 0


\* C39: an animal whose update brings it to max_age with energy <= 0 comes
\* to the starvation check already dead of old age, and the check leaves the
\* reason "Old age"; so an animal dead at max_age has that reason whatever
\* its energy.
C39_OldAgeBeforeStarvation ==
    [][/\ tk[MainThread].pc = "death_check" =>
            LET e == ents[CurId(MainThread)]
                a == ents'[CurId(MainThread)]
            IN  (e.kind # "grass" /\ e.age >= MaxAge(e.kind) /\ e.energy <= 0) =>
                    /\ ~e.alive
                    /\ e.death_reason = "Old age"
                    /\ a = e
       /\ \A id \in DOMAIN ents' :
             (ents'[id].kind # "grass" /\ ~ents'[id].alive
                  /\ ents'[id].age >= MaxAge(ents'[id].kind)) =>
                 ents'[id].death_reason = "Old age"
      ]_vars

\* a cow that reached max_age in the update that spent its last energy
C39_Witness ==
    /\ tk[MainThread].pc = "idle"
    /\ \E id \in DOMAIN ents :
          /\ ents[id].kind = "cow"
          /\ ~ents[id].alive
          /\ ents[id].age = MaxAge("cow")
          /\ ents[id].energy <= 0
          /\ ents[id].death_reason = "Old age"

-----------------------------------------------------------------------------
(* SpecLoneTiger: an orchestrator built with one tiger, no grass and no    *)
(* cow, from the ticks in which the tiger, never fed, runs out of energy   *)

\* the ticks the orchestrator has run when the model takes it up, and the
\* last tick the model follows
LoneTigerTicksRun == {197, 198, 199}
LoneTigerLastTick == 202

\* the tiger after n updates without food: n times energy_consumption spent,
\* age n, at one of the points its random moves may have taken it to
LoneTigerAfter(n, x) ==
    [NewEntity("tiger", Pos(x, SeedY)) EXCEPT
        !.energy = @ - n * EnergyConsumption("tiger"),
        !.age = n]

\* the orchestrator after n ticks with the lone tiger alive: a snapshot a
\* tick in the history, cut to the last HistoryMax
LoneTigerEcosystem(n) ==
    [NewEcosystem(Config(WorldWidth, WorldHeight, 0, 0, 1), 0) EXCEPT
        !.time_step = n,
        !.population_history =
            [j \in 1..Min(n, HistoryMax) |->
                [name \in {"grass", "cow", "tiger"} |->
                    IF name = "tiger" THEN 1 ELSE 0]]]

InitLoneTiger ==
    \E n \in LoneTigerTicksRun : \E x \in SeedXs :
        /\ ents = <<LoneTigerAfter(n, x)>>
        /\ ecos = <<LoneTigerEcosystem(n)>>
        /\ engine = NewEngine(ecos[1].config)
        /\ tk = [t \in Threads |-> TkIdle]
        /\ ext = [t \in ExtThreads |-> ExtIdle]
        /\ wk = [w \in Workers |-> "unborn"]
        /\ calls = 0
        /\ ret = NoResult

\* the caller runs one more tick
LoneTigerTick ==
    /\ tk[MainThread].pc = "idle"
    /\ ecos[1].time_step < LoneTigerLastTick
    /\ BeginTick(MainThread)
    /\ UNCHANGED <<ents, ecos, engine, ext, wk, calls, ret>>

\* the statements of a tick an orchestrator without grass can reach
NextLoneTiger ==
    \/ LoneTigerTick
    \/ ContextStep(MainThread)
    \/ EnterUpdateStep(MainThread)
    \/ SpeciesUpdateStep(MainThread)
    \/ MoveStep(MainThread)
    \/ ConsumeStep(MainThread)
    \/ FeedStep(MainThread)
    \/ AgeStep(MainThread)
    \/ DeathCheckStep(MainThread)
    \/ EnterReproductionStep(MainThread)
    \/ ReproduceStep(MainThread)
    \/ ExtendStep(MainThread)
    \/ CleanupStep(MainThread)
    \/ StatisticsStep(MainThread)
    \/ IncrementStep(MainThread)
    \/ StoreStep(MainThread)

SpecLoneTiger == InitLoneTiger /\ [][NextLoneTiger]_vars

\* C12: Scenario A with the tiger's own E = 4000 and e = 20, so that
\* ceil(E/e) = 200 < max_age: at the tick boundary after k ticks the lone
\* tiger is alive with energy E - k e if k < 200, and if k >= 200 it is dead
\* with reason "Starvation", died in update 200 and is out of the registry.
C12_LoneTigerStarves ==
    tk[MainThread].pc = "idle" =>
        LET k == ecos[1].time_step
            E == 4000 * EnergyUnit
            e == 20 * EnergyUnit
            ceil == (E + e - 1) \div e
        IN  IF k < ceil
            THEN /\ ents[1].alive
                 /\ ents[1].energy = E - k * e
                 /\ ecos[1].registry["tiger"] = <<1>>
            ELSE /\ ~ents[1].alive
                 /\ ents[1].death_reason = "Starvation"
                 /\ ents[1].age = ceil
                 /\ ecos[1].registry["tiger"] = <<>>
                 /\ ecos[1].deaths["tiger"] = 1

\* C12 witness: two ticks after the tick of its death the tiger is still
\* dead of starvation
C12_Witness ==
    /\ tk[MainThread].pc = "idle"
    /\ ecos[1].time_step = 202
    /\ ~ents[1].alive
    /\ ents[1].death_reason = "Starvation"
    /\ ents[1].energy = 0

\* the registry counts at the end of the cleanup phase of tick j of the lone
\* tiger's orchestrator: the tiger is filtered out in the tick that starves it
LoneTigerCountsAfterCleanup(j) ==
    [name \in {"grass", "cow", "tiger"} |->
        IF name = "tiger" /\ j * EnergyConsumption("tiger") < EnergyArg("tiger")
        THEN 1 ELSE 0]

\* C15: after k ticks population_history holds min(k, 100) snapshots, those
\* of the most recent ticks in tick order, each the per-species registry
\* counts at the end of its tick's cleanup phase.
C15_HistoryIsLastHundred ==
    tk[MainThread].pc = "idle" =>
        LET k == ecos[1].time_step
            h == ecos[1].population_history
        IN  /\ Len(h) = Min(k, 100)
            /\ \A j \in 1..Len(h) :
                  h[j] = LoneTigerCountsAfterCleanup(k - Len(h) + j)
            /\ h[Len(h)] = SpeciesCounts(ecos[1])

\* more than 100 ticks have run and the oldest snapshots kept and the newest
\* differ
C15_Witness ==
    /\ tk[MainThread].pc = "idle"
    /\ ecos[1].time_step > 200
    /\ Len(ecos[1].population_history) = 100
    /\ ecos[1].population_history[1]["tiger"] = 1
    /\ ecos[1].population_history[100]["tiger"] = 0


-----------------------------------------------------------------------------
(* SpecMeadow: a newly built orchestrator of grass only, in a world wider  *)
(* than competition_radius: some grass crowded at one end and a few at the *)
(* other                                                                   *)

MeadowWidth == 40
MaxCrowd == 9
MaxLoners == 2
MaxMeadowTicks == 1

\* a grass one update short of max_age that has reproduced of late
OldGrass(pos) ==
    [NewEntity("grass", pos) EXCEPT !.energy = 2 * EnergyUnit,
                                    !.age = MaxAge("grass") - 1]

\* the registry's grass, loners of them at x = 0 and crowd of them at
\* x = MeadowWidth; with old, the first in the list is an old grass
MeadowHeap(loners, crowd, old) ==
    [n \in 1..(loners + crowd) |->
        LET pos == Pos(IF n <= loners THEN 0 ELSE MeadowWidth, SeedY)
        IN  IF old /\ n = 1 THEN OldGrass(pos) ELSE NewEntity("grass", pos)]

InitMeadow ==
    \E loners \in 0..MaxLoners : \E crowd \in 0..MaxCrowd : \E old \in BOOLEAN :
        /\ loners + crowd > 0
        /\ ents = MeadowHeap(loners, crowd, old)
        /\ ecos = <<NewEcosystem(Config(MeadowWidth, WorldHeight,
                                        loners + crowd, 0, 0), 0)>>
        /\ engine = NewEngine(ecos[1].config)
        /\ tk = [t \in Threads |-> TkIdle]
        /\ ext = [t \in ExtThreads |-> ExtIdle]
        /\ wk = [w \in Workers |-> "unborn"]
        /\ calls = 0
        /\ ret = NoResult

\* the caller runs one tick
MeadowTick ==
    /\ tk[MainThread].pc = "idle"
    /\ ecos[1].time_step < MaxMeadowTicks
    /\ BeginTick(MainThread)
    /\ UNCHANGED <<ents, ecos, engine, ext, wk, calls, ret>>

\* the statements of a tick an orchestrator without animals can reach
NextMeadow ==
    \/ MeadowTick
    \/ ContextStep(MainThread)
    \/ EnterUpdateStep(MainThread)
    \/ SpeciesUpdateStep(MainThread)
    \/ GrowStep(MainThread)
    \/ AgeStep(MainThread)
    \/ DeathCheckStep(MainThread)
    \/ EnterReproductionStep(MainThread)
    \/ ReproduceStep(MainThread)
    \/ ExtendStep(MainThread)
    \/ CleanupStep(MainThread)
    \/ StatisticsStep(MainThread)
    \/ IncrementStep(MainThread)
    \/ StoreStep(MainThread)

SpecMeadow == InitMeadow /\ [][NextMeadow]_vars

\* the other grass within competition_radius of grass id among the grass
\* alive when the tick began: the registry's, which lists the dead of a tick
\* until its cleanup
OtherGrassNearby(id) ==
    {g \in Range(ecos[1].registry["grass"]) :
        /\ g # id
        /\ WithinDistance(ents[id].position, ents[g].position, 30)}

\* a grass finds no other living grass nearby as it grows, and does not grow
\* at twice the base rate: the one nearby died of old age earlier in the tick
GrewBesideTheDead ==
    /\ tk[MainThread].pc = "age_one_step"
    /\ \A g \in OtherGrassNearby(CurId(MainThread)) : ~ents[g].alive
    /\ ents[CurId(MainThread)].energy
          < NewEntity("grass", Pos(0, SeedY)).energy + 2 * BaseGrowthRate
    /\ ents[CurId(MainThread)].age = 0

-----------------------------------------------------------------------------
(* SpecTypedContext: a tick on the context update_species is handed.  The   *)
(* entity methods declare their ecosystem_state a Dict[str, Any], and the   *)
(* specifications above follow them on one.  get_ecosystem_state returns an *)
(* EcosystemStateData, a pydantic BaseModel, and update_species passes it   *)
(* on as it is: `key in ecosystem_state` iterates its (name, value) pairs   *)
(* and is False, and a BaseModel has no attribute get.                      *)

MaxTypedTicks == 2

TypedConfigs ==
    {Config(WorldWidth, WorldHeight, g, c, tg) :
        g \in 0..1, c \in 0..1, tg \in 0..1}

InitTypedContext ==
    \E cfg \in TypedConfigs : \E es \in FreshHeaps(RegisteredCounts(cfg), SeedXs) :
        /\ ents = es
        /\ ecos = <<NewEcosystem(cfg, 0)>>
        /\ engine = NewEngine(cfg)
        /\ tk = [t \in Threads |-> TkIdle]
        /\ ext = [t \in ExtThreads |-> ExtIdle]
        /\ wk = [w \in Workers |-> "unborn"]
        /\ calls = 0
        /\ ret = NoResult

\* the caller runs one tick
TypedTick ==
    /\ tk[MainThread].pc = "idle"
    /\ ecos[1].time_step < MaxTypedTicks
    /\ BeginTick(MainThread)
    /\ ret' = NoResult
    /\ UNCHANGED <<ents, ecos, engine, ext, wk, calls>>

\* the first read of the context by a living individual's update:
\* Grass.calculate_nearby_grass_density finds 'grass_positions_array' not in
\* ecosystem_state and calls ecosystem_state.get('grass_list', []);
\* Animal.intelligent_move calls ecosystem_state.get('world_width', 800).
\* The AttributeError leaves update_species and _update_ecosystem
ContextGetRaises(t) ==
    /\ tk[t].pc \in {"grow", "intelligent_move"}
    /\ tk' = [tk EXCEPT ![t] = TkIdle]
    /\ ret' = Returned("raise", <<"AttributeError">>)
    /\ UNCHANGED <<ents, ecos, engine, ext, wk, calls>>

\* the statements of a tick that are reached
NextTypedContext ==
    \/ TypedTick
    \/ ContextStep(MainThread)
    \/ EnterUpdateStep(MainThread)
    \/ SpeciesUpdateStep(MainThread)
    \/ ContextGetRaises(MainThread)
    \/ EnterReproductionStep(MainThread)
    \/ CleanupStep(MainThread)
    \/ StatisticsStep(MainThread)
    \/ IncrementStep(MainThread)
    \/ StoreStep(MainThread)

SpecTypedContext == InitTypedContext /\ [][NextTypedContext]_vars

\* C19: no tick raises: every tick runs through its phases to the counter
\* increment, whatever the registry holds.
C19_NoTickRaises == ret.op # "raise"

\* a tick of an orchestrator without any individual has completed
EmptyTickCompletes ==
    /\ tk[MainThread].pc = "idle"
    /\ ecos[1].time_step = MaxTypedTicks
    /\ ret = NoResult


-----------------------------------------------------------------------------
(* SpecContest: the first tick of a newly built orchestrator in which      *)
(* several consumers stand by the same food                                *)

MaxContestTicks == 1

ContestConfigs ==
    {Config(WorldWidth, WorldHeight, 1, 2, 0),
     Config(WorldWidth, WorldHeight, 2, 2, 0),
     Config(WorldWidth, WorldHeight, 0, 1, 2),
     Config(WorldWidth, WorldHeight, 1, 2, 2)}

InitContest ==
    \E cfg \in ContestConfigs : \E es \in FreshHeaps(RegisteredCounts(cfg), SeedXs) :
        /\ ents = es
        /\ ecos = <<NewEcosystem(cfg, 0)>>
        /\ engine = NewEngine(cfg)
        /\ tk = [t \in Threads |-> TkIdle]
        /\ ext = [t \in ExtThreads |-> ExtIdle]
        /\ wk = [w \in Workers |-> "unborn"]
        /\ calls = 0
        /\ ret = NoResult

\* the caller runs one tick
ContestTick ==
    /\ tk[MainThread].pc = "idle"
    /\ ecos[1].time_step < MaxContestTicks
    /\ BeginTick(MainThread)
    /\ UNCHANGED <<ents, ecos, engine, ext, wk, calls, ret>>

NextContest ==
    \/ ContestTick
    \/ TickStep(MainThread)

SpecContest == InitContest /\ [][NextContest]_vars

\* the step is the feeding of the consumer under update (_eat_grass or
\* _hunt_cows)
Feeding ==
    tk[MainThread].pc = "feed" /\ tk'[MainThread].pc = "age_one_step"

\* the individuals the step kills
KilledInStep == {id \in DOMAIN ents : ents[id].alive /\ ~ents'[id].alive}

\* the food of consumer id, alive or dead, within its hunting range
FoodInReach(id) ==
    {f \in DOMAIN ents :
        /\ ents[f].kind = FoodTypes(ents[id].kind)[1]
        /\ WithinDistance(ents[id].position, ents[f].position,
                          HuntingRange(ents[id].kind))}

\* the consumers of id's kind registered after id
LaterConsumers(id) ==
    LET list == ecos[1].registry[ents[id].kind]
    IN  {list[k] : k \in {k \in DOMAIN list :
                            \E j \in DOMAIN list : j < k /\ list[j] = id}}

\* C21 (as stated): when a consumer feeds and a later consumer has the same
\* alive individual in range, the earlier one consumes it; a food individual
\* is consumed by at most one consumer, and no consumer gains energy from an
\* individual already dead.
C21_EarlierConsumerConsumes ==
    [][Feeding =>
        LET id == CurId(MainThread)
        IN  /\ Cardinality(KilledInStep) <= 1
            /\ \A f \in FoodInReach(id) :
                  (ents[f].alive /\ \E c \in LaterConsumers(id) : f \in FoodInReach(c))
                     => f \in KilledInStep
            /\ KilledInStep = {} => ents' = ents]_vars

\* C21 (amended): a feeding consumer consumes at most one individual, which
\* is alive, of its food and in its range when it feeds, and it gains that
\* individual's energy (clamped to max_energy) then and only then; the
\* individual is dead from that step on with the consumer's kind as cause, so
\* that no later consumer consumes it or gains from it; an individual already
\* dead is not changed by a feeding and gives no energy.  A cow consumes the
\* first alive grass in its range whenever there is one; a tiger may miss.
C21_FirstSuccessfulConsumerWins ==
    [][Feeding =>
        LET id == CurId(MainThread)
        IN  /\ Cardinality(KilledInStep) <= 1
            /\ KilledInStep \subseteq FoodInReach(id)
            /\ \A f \in DOMAIN ents :
                  ~ents[f].alive => ents'[f] = ents[f]
            /\ \A f \in KilledInStep :
                  /\ ents'[f] = [ents[f] EXCEPT
                        !.alive = FALSE,
                        !.death_reason = IF ents[id].kind = "cow"
                                         THEN "Predation by Cow"
                                         ELSE "Predation by Tiger"]
                  /\ ents'[id].energy =
                        Min(MaxEnergy(ents[id].kind),
                            ents[id].energy + ents[f].energy)
            /\ KilledInStep = {} => ents' = ents
            /\ \A o \in DOMAIN ents \ (KilledInStep \cup {id}) :
                  ents'[o] = ents[o]
            /\ (ents[id].kind = "cow"
                  /\ \E f \in FoodInReach(id) : ents[f].alive)
                  => KilledInStep # {}]_vars

\* the second cow has fed by a grass in its range that the first cow
\* consumed in this tick, and gained nothing
C21_Witness ==
    /\ tk[MainThread].pc = "age_one_step"
    /\ ecos[1].config = Config(WorldWidth, WorldHeight, 1, 2, 0)
    /\ CurId(MainThread) = 3
    /\ 1 \in FoodInReach(3)
    /\ ents[1].death_reason = "Predation by Cow"
    /\ ents[2].energy > NewEntity("cow", ents[2].position).energy
    /\ ents[3].energy = NewEntity("cow", ents[3].position).energy
                            - EnergyConsumption("cow")

\* the first tiger missed a cow that the second tiger then caught
LaterTigerCaught ==
    /\ tk[MainThread].pc = "age_one_step"
    /\ ecos[1].config = Config(WorldWidth, WorldHeight, 0, 1, 2)
    /\ CurId(MainThread) = 3
    /\ 1 \in FoodInReach(2)
    /\ ents[1].death_reason = "Predation by Tiger"
    /\ ents[2].hunting_cooldown = 0
    /\ ents[3].hunting_cooldown = HuntingCooldownDuration("tiger")

-----------------------------------------------------------------------------
(* SpecStaleUpdate: a stopped engine whose orchestrator holds one tiger,   *)
(* never fed, in its last ticks, stepped by two callers at once            *)

MaxStaleSteps == 2

InitStaleUpdate ==
    \E n \in {198, 199} :
        /\ ents = <<LoneTigerAfter(n, 0)>>
        /\ ecos = <<LoneTigerEcosystem(n)>>
        /\ engine = NewEngine(ecos[1].config)
        /\ tk = [t \in Threads |-> TkIdle]
        /\ ext = [t \in ExtThreads |-> ExtIdle]
        /\ wk = [w \in Workers |-> "unborn"]
        /\ calls = MaxStaleSteps
        /\ ret = NoResult

\* step() on the stopped engine: `if not self.is_running:
\* self._update_ecosystem()`
StaleStepCall(t) ==
    /\ ext[t].pc = "idle"
    /\ ~StepRejected(engine)
    /\ calls > 0
    /\ calls' = calls - 1
    /\ ext' = [ext EXCEPT ![t] = [Called("step") EXCEPT !.pc = "_update_ecosystem"]]
    /\ BeginTick(t)
    /\ UNCHANGED <<ents, ecos, engine, wk, ret>>

\* the statements of a tick an orchestrator without grass can reach
NextStaleUpdate ==
    \E t \in ExtThreads :
        \/ StaleStepCall(t)
        \/ ContextStep(t)
        \/ EnterUpdateStep(t)
        \/ SpeciesUpdateStep(t)
        \/ MoveStep(t)
        \/ ConsumeStep(t)
        \/ FeedStep(t)
        \/ AgeStep(t)
        \/ DeathCheckStep(t)
        \/ EnterReproductionStep(t)
        \/ ReproduceStep(t)
        \/ ExtendStep(t)
        \/ CleanupStep(t)
        \/ StatisticsStep(t)
        \/ IncrementStep(t)
        \/ StoreStep(t)

SpecStaleUpdate == InitStaleUpdate /\ [][NextStaleUpdate]_vars

\* C25: update(context) on an individual that is not alive changes no
\* attribute of that individual and no other individual.
C25_UpdateOfDeadIsNoOp ==
    [][\A t \in DOMAIN tk :
          (/\ tk[t].pc = "Species_update"
           /\ tk'[t] # tk[t]
           /\ ~ents[CurId(t)].alive) => ents' = ents
      ]_vars

\* the starved tiger is handed to update by the step that copied the list
\* before the other step's cleanup
DeadTigerUpdated ==
    \E t \in DOMAIN tk :
        /\ tk[t].pc = "Species_update"
        /\ ents[CurId(t)].kind = "tiger"
        /\ ~ents[CurId(t)].alive
        /\ ents[CurId(t)].death_reason = "Starvation"

-----------------------------------------------------------------------------
(* SpecRegrowth: the orchestrators of Spec in their first ticks, and an    *)
(* orchestrator built with one grass, no cow and no tiger, taken up after  *)
(* ticks in which the grass grew to max_energy and its reproduction_chance *)
(* draws all failed                                                        *)

RegrowthTicksRun == 100
RegrowthLastTick == 112

\* the lone grass after n updates: grown by twice base_growth_rate an update
\* up to max_energy, age n
LoneGrassAfter(n) ==
    [NewEntity("grass", Pos(0, SeedY)) EXCEPT
        !.energy = Min(MaxEnergy("grass"),
                       @ + n * CompetitionAdjustedGrowthRate(0)),
        !.age = n]

\* the orchestrator after n ticks with the lone grass
LoneGrassEcosystem(n) ==
    [NewEcosystem(Config(WorldWidth, WorldHeight, 1, 0, 0), 0) EXCEPT
        !.time_step = n,
        !.population_history =
            [j \in 1..Min(n, HistoryMax) |->
                [name \in {"grass", "cow", "tiger"} |->
                    IF name = "grass" THEN 1 ELSE 0]]]

InitRegrowth ==
    /\ \/ \E cfg \in InitConfigs : \E es \in SeededHeaps(RegisteredCounts(cfg)) :
             /\ ents = es
             /\ ecos = <<NewEcosystem(cfg, 0)>>
       \/ /\ ents = <<LoneGrassAfter(RegrowthTicksRun)>>
          /\ ecos = <<LoneGrassEcosystem(RegrowthTicksRun)>>
    /\ engine = NewEngine(ecos[1].config)
    /\ tk = [t \in Threads |-> TkIdle]
    /\ ext = [t \in ExtThreads |-> ExtIdle]
    /\ wk = [w \in Workers |-> "unborn"]
    /\ calls = 0
    /\ ret = NoResult

\* the caller runs one more tick
RegrowthTick ==
    /\ tk[MainThread].pc = "idle"
    /\ \/ ecos[1].time_step < MaxTicks
       \/ /\ ecos[1].time_step >= RegrowthTicksRun
          /\ ecos[1].time_step < RegrowthLastTick
    /\ BeginTick(MainThread)
    /\ UNCHANGED <<ents, ecos, engine, ext, wk, calls, ret>>

NextRegrowth ==
    \/ RegrowthTick
    \/ TickStep(MainThread)

SpecRegrowth == InitRegrowth /\ [][NextRegrowth]_vars

\* C27: reproduction_cooldown is never negative; the update of an alive
\* individual whose cooldown is positive takes exactly 1 from it; nothing else
\* changes it but a reproduce() that returns an offspring, which finds it at
\* 0 and sets it to K (10 grass, 200 cow, 800 tiger); so two offspring of one
\* parent are born at least K ticks apart (each species has one parent here,
\* and an offspring's age is the number of ticks since its birth).
C27_CooldownSeparatesReproductions ==
    [][LET pc == tk[MainThread].pc
       IN  /\ \A j \in DOMAIN ents' : ents'[j].reproduction_cooldown >= 0
           /\ \A j \in DOMAIN ents :
                 ents'[j].reproduction_cooldown # ents[j].reproduction_cooldown =>
                     /\ j = CurId(MainThread)
                     /\ \/ /\ pc = "Species_update"
                           /\ ents[j].alive
                           /\ ents[j].reproduction_cooldown > 0
                        \/ /\ pc = "reproduce"
                           /\ Len(ents') = Len(ents) + 1
           /\ pc = "Species_update" =>
                 LET e == ents[CurId(MainThread)]
                 IN  (e.alive /\ e.reproduction_cooldown > 0) =>
                        ents'[CurId(MainThread)].reproduction_cooldown
                            = e.reproduction_cooldown - 1
           /\ Len(ents') > Len(ents) =>
                 /\ pc = "reproduce"
                 /\ ents[CurId(MainThread)].reproduction_cooldown = 0
                 /\ ents'[CurId(MainThread)].reproduction_cooldown
                        = ReproductionCooldown(ents[CurId(MainThread)].kind)
                 /\ ReproductionCooldown(ents[CurId(MainThread)].kind)
                        = CASE ents[CurId(MainThread)].kind = "grass" -> 10
                            [] ents[CurId(MainThread)].kind = "cow" -> 200
                            [] ents[CurId(MainThread)].kind = "tiger" -> 800
           /\ tk'[MainThread].pc = "idle" =>
                 \A a, b \in {j \in DOMAIN ents' :
                                 j > SeedTotal(ecos'[1].initial_count)} :
                     (a # b /\ ents'[a].kind = ents'[b].kind
                            /\ ents'[a].alive /\ ents'[b].alive
                            /\ ents'[a].age >= ents'[b].age) =>
                         ents'[a].age - ents'[b].age
                             >= ReproductionCooldown(ents'[a].kind)
      ]_vars

\* the lone grass has reproduced twice, ten ticks apart, and its cooldown is
\* running again
C27_Witness ==
    /\ tk[MainThread].pc = "idle"
    /\ Len(ents) = 3
    /\ ents[2].age - ents[3].age = 10
    /\ ents[1].reproduction_cooldown = 9

-----------------------------------------------------------------------------
(* SpecAmbush: a newly built orchestrator with one grass, one cow and one  *)
(* tiger, followed for the ticks a hunting cooldown lasts and one more     *)

MaxAmbushTicks == 6

InitAmbush ==
    \E es \in FreshHeaps(RegisteredCounts(Config(WorldWidth, WorldHeight, 1, 1, 1)),
                         SeedXs) :
        /\ ents = es
        /\ ecos = <<NewEcosystem(Config(WorldWidth, WorldHeight, 1, 1, 1), 0)>>
        /\ engine = NewEngine(ecos[1].config)
        /\ tk = [t \in Threads |-> TkIdle]
        /\ ext = [t \in ExtThreads |-> ExtIdle]
        /\ wk = [w \in Workers |-> "unborn"]
        /\ calls = 0
        /\ ret = NoResult

\* the caller runs one more tick
AmbushTick ==
    /\ tk[MainThread].pc = "idle"
    /\ ecos[1].time_step < MaxAmbushTicks
    /\ BeginTick(MainThread)
    /\ UNCHANGED <<ents, ecos, engine, ext, wk, calls, ret>>

NextAmbush ==
    \/ AmbushTick
    \/ TickStep(MainThread)

SpecAmbush == InitAmbush /\ [][NextAmbush]_vars

-----------------------------------------------------------------------------
(* SpecExtinction: the engine with its worker and one caller thread, after *)
(* set_extinction_callback(callback); ret holds what the worker's last     *)
(* iteration handed to the callback                                        *)

MaxExtinctionCalls == 3

InitExtinction == EngineInit(MaxExtinctionCalls)

\* the rest of the worker's iteration after _update_ecosystem():
\* extinct_species = self.ecosystem.check_extinction();
\* `if extinct_species and self.extinction_callback:` the callback is called
\* with the list; then time.sleep(sleep_time)
WorkerExtinctionCallback(w) ==
    /\ wk[w] = "sleep"
    /\ LET extinct_species == CheckExtinction(ecos[engine.ecosystem])
       IN  ret' = IF extinct_species # <<>>
                  THEN Returned("extinction_callback", extinct_species)
                  ELSE NoResult
    /\ wk' = [wk EXCEPT ![w] = "while"]
    /\ UNCHANGED <<ents, ecos, engine, tk, ext, calls>>

NextExtinction ==
    \/ \E t \in ClockCallers :
          \/ LifecycleCall(t)
          \/ LifecycleStep(t)
          \/ TickStep(t)
    \/ \E w \in Workers :
          \/ WorkerWhile(w)
          \/ WorkerIfPaused(w)
          \/ WorkerExtinctionCallback(w)
          \/ TickStep(w)

SpecExtinction == InitExtinction /\ [][NextExtinction]_vars

\* the count of a species before the last tick of the orchestrator: the
\* snapshot before the last in the history, or the count at construction
CountBeforeLastTick(eco, name) ==
    IF Len(eco.population_history) >= 2
    THEN eco.population_history[Len(eco.population_history) - 1][name]
    ELSE eco.initial_count[name]

\* the species, in registration order, whose count became 0 in the last tick
NewlyExtinct(eco) ==
    SelectSeq(SpeciesNames,
              LAMBDA name : /\ Len(eco.registry[name]) = 0
                            /\ CountBeforeLastTick(eco, name) > 0)

\* C30: after a worker tick the extinction callback is called with the
\* species whose count became zero in that tick, and is not called when
\* there is none.
C30_CallbackGetsNewlyExtinct ==
    [][\A w \in Workers :
          (wk[w] = "sleep" /\ wk'[w] = "while") =>
              LET newly == NewlyExtinct(ecos[engine.ecosystem])
              IN  ret' = IF newly # <<>>
                         THEN Returned("extinction_callback", newly)
                         ELSE NoResult
      ]_vars

\* the callback was handed a species that had no individual at construction
LongExtinctReported ==
    /\ ret.op = "extinction_callback"
    /\ \E k \in DOMAIN ret.value :
          ecos[engine.ecosystem].initial_count[ret.value[k]] = 0

-----------------------------------------------------------------------------
(* SpecCallbacks: the engine with its worker and one caller thread, after  *)
(* set_update_callback and set_extinction_callback; ret holds what the     *)
(* worker handed to the callback it called last                            *)

MaxCallbackCalls == 3

InitCallbacks == EngineInit(MaxCallbackCalls)

GetDataBeforeIncrement(E, eng, eco) ==
    [ecosystem_state |-> GetSpeciesData(E, eco),
     species_counts |-> SpeciesCounts(eco),
     time_step |-> eco.time_step - 1,
     births |-> eco.births,
     deaths |-> eco.deaths,
     population_history |-> eco.population_history,
     is_running |-> eng.is_running,
     is_paused |-> eng.is_paused,
     simulation_speed |-> eng.simulation_speed]

\* get_data() as the worker calls it between two ticks
GetData(E, eng, eco) ==
    [ecosystem_state |-> GetSpeciesData(E, eco),
     species_counts |-> SpeciesCounts(eco),
     time_step |-> eco.time_step,
     births |-> eco.births,
     deaths |-> eco.deaths,
     population_history |-> eco.population_history,
     is_running |-> eng.is_running,
     is_paused |-> eng.is_paused,
     simulation_speed |-> eng.simulation_speed]

\* _update_ecosystem() has returned:
\* `if self.update_callback: self.update_callback(self.get_data())`
WorkerUpdateCallback(w) ==
    /\ wk[w] = "sleep"
    /\ ret' = Returned("update_callback",
                       GetData(ents, engine, ecos[engine.ecosystem]))
    /\ wk' = [wk EXCEPT ![w] = "check_extinction"]
    /\ UNCHANGED <<ents, ecos, engine, tk, ext, calls>>

\* extinct_species = self.ecosystem.check_extinction();
\* `if extinct_species and self.extinction_callback:` the callback is called
\* with the list; then time.sleep(sleep_time)
WorkerCheckExtinction(w) ==
    /\ wk[w] = "check_extinction"
    /\ LET extinct_species == CheckExtinction(ecos[engine.ecosystem])
       IN  ret' = IF extinct_species # <<>>
                  THEN Returned("extinction_callback", extinct_species)
                  ELSE NoResult
    /\ wk' = [wk EXCEPT ![w] = "while"]
    /\ UNCHANGED <<ents, ecos, engine, tk, ext, calls>>

NextCallbacks ==
    \/ \E t \in ClockCallers :
          \/ LifecycleCall(t)
          \/ LifecycleStep(t)
          \/ TickStep(t)
    \/ \E w \in Workers :
          \/ WorkerWhile(w)
          \/ WorkerIfPaused(w)
          \/ WorkerUpdateCallback(w)
          \/ WorkerCheckExtinction(w)
          \/ TickStep(w)

SpecCallbacks == InitCallbacks /\ [][NextCallbacks]_vars

-----------------------------------------------------------------------------
(* SpecLive: the engine with its worker and one caller thread, on          *)
(* orchestrators with and without individuals, under fair scheduling: a    *)
(* thread that can take a step of the operation or loop it is in takes it  *)

MaxLiveCalls == 3

LiveConfigs == ClockConfigs \cup {Config(WorldWidth, WorldHeight, 0, 0, 0)}

InitLive ==
    \E cfg \in LiveConfigs : \E es \in FreshHeaps(RegisteredCounts(cfg), ClockSeedXs) :
        /\ ents = es
        /\ ecos = <<NewEcosystem(cfg, 0)>>
        /\ engine = NewEngine(cfg)
        /\ tk = [t \in Threads |-> TkIdle]
        /\ ext = [t \in ExtThreads |-> ExtIdle]
        /\ wk = [w \in Workers |-> "unborn"]
        /\ calls = MaxLiveCalls
        /\ ret = NoResult

\* the operating system runs every thread that is ready: the worker's loop
\* and tick, and the operation a caller is inside
FairThreads ==
    /\ \A w \in Workers : WF_vars(WorkerStep(w) \/ TickStep(w))
    /\ \A t \in ClockCallers :
          WF_vars(LifecycleStep(t) \/ GetDataStep(t) \/ TickStep(t))

SpecLive == InitLive /\ [][NextClock]_vars /\ FairThreads

-----------------------------------------------------------------------------
(* SpecSnapshot: a stopped engine and one caller that calls get_data() and *)
(* step(); ret holds the dictionary get_data returned.  Its 'births',      *)
(* 'deaths' and 'population_history' entries are the orchestrator's own    *)
(* SpeciesStatistics objects and list, held here as the index of the       *)
(* orchestrator they belong to; 'ecosystem_state' and 'species_counts' are *)
(* objects built by the call                                               *)

MaxSnapshotCalls == 3

InitSnapshot ==
    \E cfg \in ClockConfigs : \E es \in FreshHeaps(RegisteredCounts(cfg), SeedXs) :
        /\ ents = es
        /\ ecos = <<NewEcosystem(cfg, 0)>>
        /\ engine = NewEngine(cfg)
        /\ tk = [t \in Threads |-> TkIdle]
        /\ ext = [t \in ExtThreads |-> ExtIdle]
        /\ wk = [w \in Workers |-> "unborn"]
        /\ calls = MaxSnapshotCalls
        /\ ret = NoResult

\* get_data() on the stopped engine, where no other thread runs
GetDataReferences(E, eng) ==
    [ecosystem_state |-> GetSpeciesData(E, ecos[eng.ecosystem]),
     species_counts |-> SpeciesCounts(ecos[eng.ecosystem]),
     time_step |-> ecos[eng.ecosystem].time_step,
     births |-> eng.ecosystem,
     deaths |-> eng.ecosystem,
     population_history |-> eng.ecosystem,
     is_running |-> eng.is_running,
     is_paused |-> eng.is_paused,
     simulation_speed |-> eng.simulation_speed]

SnapshotCall(t) ==
    /\ ext[t].pc = "idle"
    /\ calls > 0
    /\ calls' = calls - 1
    /\ ext' = [ext EXCEPT ![t] = Called("get_data")]
    /\ ret' = Returned("get_data", GetDataReferences(ents, engine))
    /\ UNCHANGED <<ents, ecos, engine, tk, wk>>

NextSnapshot ==
    \E t \in ClockCallers :
        \/ SnapshotCall(t)
        \/ StepCall(t)
        \/ TickStep(t)

SpecSnapshot == InitSnapshot /\ [][NextSnapshot]_vars

\* what the holder of the dictionary d reads in it now (in the ticks followed
\* the history list has fewer than HistoryMax entries and is not replaced)
ReadNow(d) ==
    [d EXCEPT !.births = ecos[d.births].births,
              !.deaths = ecos[d.deaths].deaths,
              !.population_history = ecos[d.population_history].population_history]

\* C34: the births, deaths, population_history, counts and per-species data
\* read in a value get_data() returned stay as they were when later ticks
\* run.
C34_GetDataIsPointInTimeCopy ==
    [][(ret.op = "get_data" /\ ret' = ret) => ReadNow(ret.value)' = ReadNow(ret.value)]_vars

\* the held dictionary shows a death and a history entry of a tick that ran
\* after get_data() returned
SnapshotShowsLaterTick ==
    /\ ret.op = "get_data"
    /\ ret.value.time_step = 0
    /\ ReadNow(ret.value).deaths["grass"] = 1
    /\ Len(ReadNow(ret.value).population_history) = 1
    /\ ret.value.species_counts["grass"] = 1

-----------------------------------------------------------------------------
(* SpecDensity: the two density computations of Grass applied to a grass   *)
(* of a newly built meadow and the context of its orchestrator; ret holds  *)
(* the two results                                                         *)

\* pi * competition_radius ** 2, in hundredths
CircleArea == (314159 * Sq(CompetitionRadius)) \div 1000

\* the fallback's count: the alive grass of grass_list, self excluded, within
\* competition_radius
NearbyGrassCountFallback(E, id, grass_list) ==
    Cardinality({j \in 1..Len(grass_list) :
                    /\ grass_list[j] # id
                    /\ E[grass_list[j]].alive
                    /\ WithinDistance(E[id].position, E[grass_list[j]].position,
                                      CompetitionRadius)})

\* the densities as multiples of 1 / CircleArea:
\* min(1.0, nearby_grass_count / (pi r^2 / 400)) in the optimized computation,
\* min(1.0, nearby_grass_count / (pi r^2 / 100)) in the fallback
DensityOptimized(E, id, ctx) ==
    IF Len(ctx.grass_positions_array) = 0 THEN 0
    ELSE Min(CircleArea, 400 * 100 * NearbyGrassCount(E, id, ctx))

DensityFallback(E, id, ctx) ==
    IF ctx.grass_list = <<>> THEN 0
    ELSE Min(CircleArea, 100 * 100 * NearbyGrassCountFallback(E, id, ctx.grass_list))

InitDensity ==
    \E loners \in 0..MaxLoners : \E crowd \in 0..MaxCrowd : \E old \in BOOLEAN :
        /\ loners + crowd > 0
        /\ ents = MeadowHeap(loners, crowd, old)
        /\ ecos = <<NewEcosystem(Config(MeadowWidth, WorldHeight,
                                        loners + crowd, 0, 0), 0)>>
        /\ engine = NewEngine(ecos[1].config)
        /\ tk = [t \in Threads |-> TkIdle]
        /\ ext = [t \in ExtThreads |-> ExtIdle]
        /\ wk = [w \in Workers |-> "unborn"]
        /\ calls = 0
        /\ ret = NoResult

\* both computations for grass id on the context of the orchestrator
DensityCall(id) ==
    /\ LET ctx == GetEcosystemState(ents, ecos[1])
       IN  ret' = Returned("density",
                           [grass |-> id,
                            optimized |-> DensityOptimized(ents, id, ctx),
                            fallback |-> DensityFallback(ents, id, ctx)])
    /\ UNCHANGED <<ents, ecos, engine, tk, ext, wk, calls>>

NextDensity == \E id \in DOMAIN ents : DensityCall(id)

SpecDensity == InitDensity /\ [][NextDensity]_vars

\* C37: for the same grass and the same alive grass the optimized and the
\* fallback computation return the same density.
C37_DensitiesAgree ==
    ret.op = "density" => ret.value.optimized = ret.value.fallback

\* a grass with one other grass within competition_radius: the same count in
\* both computations, and densities that differ
DensitiesDifferForOneNeighbour ==
    /\ ret.op = "density"
    /\ Len(ents) = 2
    /\ NearbyGrassCount(ents, ret.value.grass, GetEcosystemState(ents, ecos[1])) = 1
    /\ NearbyGrassCountFallback(ents, ret.value.grass, ecos[1].registry["grass"]) = 1
    /\ ret.value.optimized = 4 * ret.value.fallback

=============================================================================
